---- MODULE Spec2Model ----
(***************************************************************************)
(* numchuck: the high-level Chuck wrapper (src/src/numchuck/api.py, and    *)
(* its older copy src/src/pychuck/api.py) driving the ChucK engine through *)
(* the compiled binding _numchuck.  The wrapper is translated from its     *)
(* Python source; the binding is a compiled extension whose code is not    *)
(* among the Python sources, so the engine part (the chuck_* and Engine*   *)
(* operators, the message queue and the shred table) follows the           *)
(* specification's description of it.                                      *)
(*                                                                         *)
(* Every wrapper method is one atomic action.  Frames, channel counts and  *)
(* values are small numbers: a "frame count" of 1 or 2 stands for 512 or   *)
(* 1024.                                                                   *)
(***************************************************************************)
EXTENDS Integers, Sequences, FiniteSets, TLC

\* ------------------------------------------------------------------ bounds
MaxFrames == 2      \* num_frames / run_frames range over 0..MaxFrames
MaxChan == 2        \* channel counts range over 1..MaxChan
MaxTime == 3        \* virtual time (frames) the model lets the engine reach
MaxQueue == 3       \* control messages waiting in the engine's queue
MaxCb == 2          \* callbacks (closures) the caller creates
MaxVal == 1         \* scalar values range over 0..MaxVal
MaxShredId == 2     \* shred ids the engine hands out

FrameVals == 0..MaxFrames
ChanVals == 1..MaxChan
Vals == 0..MaxVal
Types == {"int", "float", "string"}
\* "x" is the global (scalar of each type, and Event) the "decl" source
\* declares; "u" is a name no source declares.
Names == {"x", "u"}
\* "decl": declares the globals and ends; "osc": an oscillator patched to dac
\* that loops forever; "bad": source that does not compile.
Sources == {"decl", "osc", "wait", "bad"}
Packages == {"numchuck", "pychuck"}

VARIABLES
    pkg,                \* which wrapper class this instance is
    chuck,              \* self._chuck: the engine behind the binding
    reuse_input_buf,    \* self._reuse_input_buf
    reuse_output_buf,   \* self._reuse_output_buf
    reuse_num_frames,   \* self._reuse_num_frames
    held,               \* id of the array run() returned last (the caller's reference)
    fired,              \* per caller closure: the values the last call invoked it with
    last,               \* the most recent call: arguments, engine calls, outcome
    log_messages,       \* ChuckApplication.log_messages of the TUI
    log_area_text,      \* log_area.text: what the TUI's log window shows
    arrived             \* how many messages ChucK has written so far

vars == <<pkg, chuck, reuse_input_buf, reuse_output_buf, reuse_num_frames,
          held, fired, last, log_messages, log_area_text, arrived>>

\* The state of the TUI's log window.
tui == <<log_messages, log_area_text, arrived>>

\* ChuckApplication.__init__ and create_log_window: no message, empty text.
NoLog ==
    /\ log_messages = << >>
    /\ log_area_text = << >>
    /\ arrived = 0

\* ----------------------------------------------------------------- buffers
\* A numpy array: its identity (own, id), its length and whether it is all-zero.
None == [own |-> "none", id |-> 0, len |-> 0, zero |-> TRUE]

np_zeros(id, len) == [own |-> "np", id |-> id, len |-> len, zero |-> TRUE]

CallerBuf(id, len, zero) == [own |-> "caller", id |-> id, len |-> len, zero |-> zero]

\* The identity of a buffer object.
Ident(b) == <<b.own, b.id>>

\* ids of the numpy arrays that are still referenced: by the wrapper's reuse
\* slots or by the caller.
LiveIds ==
    {held[i] : i \in 1..Len(held)} \cup {b.id : b \in {reuse_input_buf, reuse_output_buf} \ {None}}

\* A new object is distinct from every object that is still referenced.
FreshId(used) ==
    CHOOSE i \in 1..(Cardinality(used) + 1) :
        i \notin used /\ \A j \in 1..(i - 1) : j \in used

\* The caller binds the array run() returns (audio = chuck.run(...)), which
\* releases the array an earlier call had returned.
Keep(h, id) == <<id>>

\* The caller binds every array run() returns to a name of its own
\* (audio1 = chuck.run(...); audio2 = chuck.run(...)), so all stay referenced.
Retain(h, id) == Append(h, id)

\* ------------------------------------------------------------------ errors
NoErr == [kind |-> "none", name |-> "", frames |-> -1]
EngineNotReady == [kind |-> "EngineNotReady", name |-> "", frames |-> -1]
InvalidArgument == [kind |-> "InvalidArgument", name |-> "", frames |-> -1]
RaceCondition == [kind |-> "RaceCondition", name |-> "", frames |-> -1]
ConfigError == [kind |-> "ConfigError", name |-> "", frames |-> -1]

\* ------------------------------------------------------- engine (binding)
NoMsg ==
    [kind |-> "none", t |-> "", name |-> "", val |-> 0, cb |-> 0, id |-> 0,
     newid |-> 0, src |-> "", forever |-> FALSE]

\* The integer parameters of the engine and their values before any staging.
DefaultParams ==
    [SAMPLE_RATE |-> 44100, INPUT_CHANNELS |-> 2, OUTPUT_CHANNELS |-> 2,
     CHUGIN_ENABLE |-> 1, VM_ADAPTIVE |-> 0, VM_HALT |-> 0, AUTO_DEPEND |-> 0,
     DEPRECATE_LEVEL |-> 1, DUMP_INSTRUCTIONS |-> 0, OTF_ENABLE |-> 0,
     OTF_PORT |-> 8888, TTY_COLOR |-> 0, TTY_WIDTH_HINT |-> 80]

\* The domain of each option: a positive sample rate, non-negative channel
\* counts, a deprecation level of 0, 1 or 2.
ValidParams(param) ==
    /\ param["SAMPLE_RATE"] > 0
    /\ param["INPUT_CHANNELS"] >= 0
    /\ param["OUTPUT_CHANNELS"] >= 0
    /\ param["DEPRECATE_LEVEL"] \in 0..2

\* A freshly constructed _numchuck.ChucK(): not initialized, default params.
NewChucK ==
    [init |-> FALSE,
     param |-> DefaultParams,
     vm_in |-> 0, vm_out |-> 0,
     now |-> 0,
     shreds |-> {},
     next_id |-> 1,
     declared |-> FALSE,
     gval |-> [t \in Types |-> 0],
     queue |-> <<>>,
     listeners |-> {},
     next_listener |-> 1,
     audio |-> FALSE,
     block |-> <<>>,
     running |-> <<>>]

set_param(e, key, value) == [e EXCEPT !.param[key] = value]

get_param_int(e, key) == e.param[key]

\* init(): builds the VM with the channel counts staged so far; a staged
\* value outside its domain makes the initialization fail, and the engine
\* stays as it was.
chuck_init(e) ==
    IF ValidParams(e.param)
    THEN [e EXCEPT !.init = TRUE,
                   !.vm_in = e.param["INPUT_CHANNELS"],
                   !.vm_out = e.param["OUTPUT_CHANNELS"]]
    ELSE e

\* How init() reports its outcome to the caller: it returns true, or, when
\* the initialization failed, it returns false or raises.
InitReports(e) ==
    IF ValidParams(e.param) THEN {"true"} ELSE {"false", "raise"}

Enqueue(e, m) == [e EXCEPT !.queue = Append(e.queue, m)]

\* An entry of the shred table: added ("new") and not yet executed.
Shred(id, src) == [id |-> id, src |-> src, st |-> "new"]

\* A shred starts executing: a "wait" shred declares the globals and then
\* waits on event "x"; the others run on.
Started(s) ==
    [s EXCEPT !.st = IF s.st # "new" THEN s.st
                     ELSE IF s.src = "wait" THEN "waiting" ELSE "running"]

\* A "decl" shred declares the globals when it executes, and ends at once.
Spork(e, id, src) ==
    IF src = "decl"
    THEN [e EXCEPT !.declared = TRUE]
    ELSE [e EXCEPT !.declared = @ \/ src = "wait",
                   !.shreds = e.shreds \cup {Started(Shred(id, src))}]

\* The shreds waiting on the event, and the one that has waited longest.
Waiters(e) == {s \in e.shreds : s.st = "waiting"}

Wake(e, ws) ==
    [e EXCEPT !.shreds = {IF s \in ws THEN [s EXCEPT !.st = "running"] ELSE s :
                             s \in e.shreds}]

FirstWaiter(e) ==
    IF Waiters(e) = {} THEN {}
    ELSE {CHOOSE s \in Waiters(e) : \A o \in Waiters(e) : s.id <= o.id}

\* The listeners of event `name`, lowest registration id first.
RECURSIVE ListenerSeq(_)
ListenerSeq(ls) ==
    IF ls = {} THEN <<>>
    ELSE LET l == CHOOSE a \in ls : \A b \in ls : a.id <= b.id
         IN <<l>> \o ListenerSeq(ls \ {l})

\* The engine handles one queued control message: the new engine state and
\* the callbacks it invokes (<<callback, value>>, in order).
ProcessMsg(e, m) ==
    LET hit == {l \in e.listeners : l.name = m.name}
        known == e.declared /\ m.name = "x"
    IN  CASE m.kind = "spork" ->
                [chuck |-> Spork(e, m.id, m.src), calls |-> <<>>]
          [] m.kind = "remove" ->
                [chuck |-> [e EXCEPT !.shreds = {s \in e.shreds : s.id # m.id}],
                 calls |-> <<>>]
          [] m.kind = "replace" ->
                [chuck |->
                    IF \E s \in e.shreds : s.id = m.id
                    THEN Spork([e EXCEPT !.shreds = {s \in e.shreds : s.id # m.id}],
                               m.newid, m.src)
                    ELSE e,
                 calls |-> <<>>]
          [] m.kind = "clear" ->
                [chuck |-> [e EXCEPT !.shreds = {}], calls |-> <<>>]
          [] m.kind = "set" ->
                [chuck |-> IF known THEN [e EXCEPT !.gval[m.t] = m.val] ELSE e,
                 calls |-> <<>>]
          [] m.kind = "get" ->
                [chuck |-> e,
                 calls |-> IF known THEN << <<m.cb, e.gval[m.t]>> >> ELSE <<>>]
          [] m.kind \in {"signal", "broadcast"} ->
                IF known
                THEN [chuck |-> [Wake(e, IF m.kind = "signal" THEN FirstWaiter(e)
                                         ELSE Waiters(e))
                                    EXCEPT !.listeners =
                                    {l \in e.listeners : l \notin hit \/ l.forever}],
                      calls |-> [i \in 1..Cardinality(hit) |->
                                    <<ListenerSeq(hit)[i].cb, 0>>]]
                ELSE [chuck |-> e, calls |-> <<>>]
          [] m.kind = "listen" ->
                [chuck |-> [e EXCEPT !.listeners = e.listeners \cup
                               {[id |-> m.id, name |-> m.name, cb |-> m.cb,
                                 forever |-> m.forever]}],
                 calls |-> <<>>]
          [] m.kind = "unlisten" ->
                [chuck |-> [e EXCEPT !.listeners =
                               {l \in e.listeners : ~(l.id = m.id /\ l.name = m.name)}],
                 calls |-> <<>>]
          [] OTHER -> [chuck |-> e, calls |-> <<>>]

\* The engine consumes the whole queue, oldest message first.
RECURSIVE Drain(_, _)
Drain(e, calls) ==
    IF e.queue = <<>>
    THEN [chuck |-> e, calls |-> calls]
    ELSE LET r == ProcessMsg([e EXCEPT !.queue = Tail(e.queue)], Head(e.queue))
         IN Drain(r.chuck, calls \o r.calls)

\* Shreds that were added to the table without queuing execute first.
ExecShreds(e) ==
    [e EXCEPT !.declared = @ \/ \E s \in e.shreds :
                                   s.st = "new" /\ s.src \in {"decl", "wait"},
              !.shreds = {Started(s) : s \in {o \in e.shreds : o.src # "decl"}}]

\* A render pass of n frames: with at least one frame the queued control
\* messages are consumed and virtual time advances by n; the output buffer
\* gets non-zero samples when an oscillator is live.
EngineCompute(e, n) ==
    IF n = 0
    THEN [chuck |-> e, err |-> NoErr, calls |-> <<>>, wrote |-> FALSE]
    ELSE LET d == Drain(ExecShreds(e), <<>>)
         IN [chuck |-> [d.chuck EXCEPT !.now = e.now + n],
             err |-> NoErr,
             calls |-> d.calls,
             wrote |-> \E s \in d.chuck.shreds : s.src = "osc"]

\* run(input, output, num_frames) of the binding: the set of its outcomes.
\* Before init it fails.  With a buffer whose length is not num_frames times
\* the VM's channel count the behaviour at the engine boundary is undefined:
\* the call is either rejected or goes on as if the lengths matched.
\* While the real-time thread renders, a second render pass races with it:
\* it may go through as if the two were serialized, or break.
chuck_run(e, input_buf, output_buf, num_frames) ==
    IF ~e.init
    THEN {[chuck |-> e, err |-> EngineNotReady, calls |-> <<>>, wrote |-> FALSE]}
    ELSE (IF /\ input_buf.len = num_frames * e.vm_in
             /\ output_buf.len = num_frames * e.vm_out
          THEN {EngineCompute(e, num_frames)}
          ELSE {EngineCompute(e, num_frames),
                [chuck |-> e, err |-> InvalidArgument, calls |-> <<>>,
                 wrote |-> FALSE]})
         \cup
         (IF e.audio
          THEN {[chuck |-> e, err |-> RaceCondition, calls |-> <<>>,
                 wrote |-> FALSE]}
          ELSE {})

\* start_audio(chuck) / stop_audio(): the real-time thread starts and stops
\* driving the engine.
start_audio(e) == [e EXCEPT !.audio = TRUE]

stop_audio(e) == [e EXCEPT !.audio = FALSE]

\* The real-time thread enters a block: it reads the shred table as it is
\* now (block holds what it has read, and is empty outside a block).
begin_block(e) == [e EXCEPT !.block = <<e.shreds>>]

\* The real-time thread finishes the block.  When the shred table was changed
\* under it the outcome is undefined: the block is rendered from the table as
\* it is now, or the thread breaks and the audio stops.
end_block(e) ==
    LET done == [e EXCEPT !.block = <<>>]
        r == EngineCompute(done, 1)
    IN {[chuck |-> r.chuck, err |-> NoErr, calls |-> r.calls]} \cup
       (IF e.block[1] # e.shreds
        THEN {[chuck |-> [done EXCEPT !.audio = FALSE], err |-> RaceCondition,
               calls |-> <<>>]}
        ELSE {})

\* ids of the shreds the engine knows: in the table or queued to be sporked.
KnownIds(e) ==
    {s.id : s \in e.shreds} \cup
    {e.queue[i].id : i \in {j \in 1..Len(e.queue) : e.queue[j].kind = "spork"}} \cup
    {e.queue[i].newid : i \in {j \in 1..Len(e.queue) : e.queue[j].kind = "replace"}}

get_all_shred_ids(e) == {s.id : s \in e.shreds}

\* compile_code(code, args, count, immediate): (success, ids).  Source that
\* does not compile is reported as (False, []); otherwise `count` shreds get
\* consecutive ids and are sporked at once (immediate) or by queued messages.
RECURSIVE SporkAll(_, _, _, _)
SporkAll(e, ids, src, immediate) ==
    IF ids = <<>> THEN e
    ELSE SporkAll(IF immediate
                  THEN [e EXCEPT !.shreds = @ \cup {Shred(Head(ids), src)}]
                  ELSE Enqueue(e, [NoMsg EXCEPT !.kind = "spork", !.id = Head(ids),
                                                !.src = src]),
                  Tail(ids), src, immediate)

compile_code(e, code, count, immediate) ==
    IF code = "bad"
    THEN [chuck |-> e, ok |-> FALSE, ids |-> <<>>]
    ELSE LET ids == [i \in 1..count |-> e.next_id + i - 1]
         IN [chuck |-> SporkAll([e EXCEPT !.next_id = e.next_id + count],
                                ids, code, immediate),
             ok |-> TRUE, ids |-> ids]

remove_shred_msg(id) == [NoMsg EXCEPT !.kind = "remove", !.id = id]

\* replace_shred(id, code, args): the new id, or 0 when the shred is not in
\* the table or the source does not compile.
replace_shred_result(e, id, code) ==
    IF code = "bad" \/ id \notin get_all_shred_ids(e)
    THEN [chuck |-> e, id |-> 0]
    ELSE [chuck |-> Enqueue([e EXCEPT !.next_id = e.next_id + 1],
                            [NoMsg EXCEPT !.kind = "replace", !.id = id,
                                          !.newid = e.next_id, !.src = code]),
          id |-> e.next_id]

\* reset_shred_id(): the generator restarts above the ids still in use.
reset_shred_id(e) ==
    LET known == KnownIds(e)
    IN [e EXCEPT !.next_id =
            IF known = {} THEN 1
            ELSE 1 + CHOOSE m \in known : \A k \in known : k <= m]

set_global_msg(t, name, value) ==
    [NoMsg EXCEPT !.kind = "set", !.t = t, !.name = name, !.val = value]

get_global_msg(t, name, cb) ==
    [NoMsg EXCEPT !.kind = "get", !.t = t, !.name = name, !.cb = cb]

event_msg(kind, name) == [NoMsg EXCEPT !.kind = kind, !.name = name]

listen_msg(id, name, cb, forever) ==
    [NoMsg EXCEPT !.kind = "listen", !.id = id, !.name = name, !.cb = cb,
                  !.forever = forever]

unlisten_msg(name, id) == [NoMsg EXCEPT !.kind = "unlisten", !.name = name, !.id = id]

\* ----------------------------------------------------- the call record
\* The constructor's arguments and their defaults.
DefaultConfig ==
    [sample_rate |-> 44100, input_channels |-> 2, output_channels |-> 2,
     chugin_enable |-> TRUE, vm_adaptive |-> FALSE, vm_halt |-> FALSE,
     auto_depend |-> FALSE, deprecate_level |-> 1, dump_instructions |-> FALSE,
     otf_enable |-> FALSE, otf_port |-> 8888, tty_color |-> FALSE,
     tty_width_hint |-> 80]

\* The call took or returned no option values.
NoConfig == [DefaultConfig EXCEPT !.sample_rate = 0]

NoCall ==
    [op |-> "none", num_frames |-> 0, reuse |-> FALSE, output |-> None,
     input |-> None, ret |-> None, err |-> NoErr, runs |-> <<>>, cbs |-> {},
     t |-> "", name |-> "", val |-> 0, ok |-> FALSE, ids |-> <<>>,
     config |-> NoConfig]

\* One call of the binding's run(): what the engine was handed.
EngineCall(input_buf, output_buf, num_frames) ==
    [n |-> num_frames, input |-> input_buf, output |-> output_buf]

\* The caller's closures: for each, who holds it ("caller": a callback the
\* caller passed; "get": the lambda a get_* call made around its result
\* list) and the values the last call of the wrapper invoked it with.
NoClosures == [c \in {} |-> [owner |-> "caller", vals |-> <<>>]]

\* No closure has been invoked yet by the call that starts.
Quiet(f) == [c \in DOMAIN f |-> [f[c] EXCEPT !.vals = <<>>]]

\* The closures invoked during a render pass append the delivered values.
Deliver(f, calls) ==
    [c \in DOMAIN f |->
        [f[c] EXCEPT !.vals = @ \o [i \in 1..Cardinality({j \in 1..Len(calls) : calls[j][1] = c}) |->
                    LET js == {j \in 1..Len(calls) : calls[j][1] = c}
                    IN calls[CHOOSE j \in js :
                                Cardinality({k \in js : k < j}) = i - 1][2]]]]

\* A get_* lambda nothing refers to any more (its call returned and the
\* engine has consumed its request) is garbage.
Gc(f, e) ==
    LET kept == {c \in DOMAIN f :
                    \/ f[c].owner = "caller"
                    \/ \E i \in 1..Len(e.queue) :
                          e.queue[i].kind = "get" /\ e.queue[i].cb = c}
    IN [c \in kept |-> f[c]]

CalledBack(calls) == {calls[j][1] : j \in 1..Len(calls)}

\* ---------------------------------------------------------- construction
\* int(b) and bool(i) of Python.
int(b) == IF b THEN 1 ELSE 0

bool(i) == i # 0

\* Faulty variant: the two VM flags are staged under each other's key.
Stage_swapped(e, config) ==
    LET s1 == set_param(e, "SAMPLE_RATE", config.sample_rate)
        s2 == set_param(s1, "INPUT_CHANNELS", config.input_channels)
        s3 == set_param(s2, "OUTPUT_CHANNELS", config.output_channels)
        s4 == set_param(s3, "CHUGIN_ENABLE", int(config.chugin_enable))
        s5 == set_param(s4, "VM_ADAPTIVE", int(config.vm_halt))
        s6 == set_param(s5, "VM_HALT", int(config.vm_adaptive))
        s7 == set_param(s6, "AUTO_DEPEND", int(config.auto_depend))
        s8 == set_param(s7, "DEPRECATE_LEVEL", config.deprecate_level)
        s9 == set_param(s8, "DUMP_INSTRUCTIONS", int(config.dump_instructions))
        s10 == set_param(s9, "OTF_ENABLE", int(config.otf_enable))
        s11 == set_param(s10, "OTF_PORT", config.otf_port)
        s12 == set_param(s11, "TTY_COLOR", int(config.tty_color))
    IN set_param(s12, "TTY_WIDTH_HINT", config.tty_width_hint)

\* Chuck.__init__, the set_param calls: every option is staged on the engine,
\* the booleans as integers.
Stage(e, config) ==
    LET s1 == set_param(e, "SAMPLE_RATE", config.sample_rate)
        s2 == set_param(s1, "INPUT_CHANNELS", config.input_channels)
        s3 == set_param(s2, "OUTPUT_CHANNELS", config.output_channels)
        s4 == set_param(s3, "CHUGIN_ENABLE", int(config.chugin_enable))
        s5 == set_param(s4, "VM_ADAPTIVE", int(config.vm_adaptive))
        s6 == set_param(s5, "VM_HALT", int(config.vm_halt))
        s7 == set_param(s6, "AUTO_DEPEND", int(config.auto_depend))
        s8 == set_param(s7, "DEPRECATE_LEVEL", config.deprecate_level)
        s9 == set_param(s8, "DUMP_INSTRUCTIONS", int(config.dump_instructions))
        s10 == set_param(s9, "OTF_ENABLE", int(config.otf_enable))
        s11 == set_param(s10, "OTF_PORT", config.otf_port)
        s12 == set_param(s11, "TTY_COLOR", int(config.tty_color))
    IN set_param(s12, "TTY_WIDTH_HINT", config.tty_width_hint)

\* Chuck.__init__: the parameters are staged on a new engine, init() is
\* called when auto_init, and the reuse slots start empty.
Construct(config, auto_init) ==
    LET staged == Stage(NewChucK, config)
    IN IF auto_init THEN chuck_init(staged) ELSE staged

Init ==
    /\ pkg \in Packages
    /\ \E i \in ChanVals, o \in ChanVals, auto_init \in BOOLEAN :
          chuck = Construct([DefaultConfig EXCEPT !.input_channels = i,
                                                  !.output_channels = o],
                            auto_init)
    /\ reuse_input_buf = None
    /\ reuse_output_buf = None
    /\ reuse_num_frames = 0
    /\ held = << >>
    /\ fired = NoClosures
    /\ NoLog
    /\ last = NoCall

\* Chuck.input_channels / Chuck.output_channels (properties).
sample_rate == get_param_int(chuck, "SAMPLE_RATE")

input_channels == get_param_int(chuck, "INPUT_CHANNELS")

output_channels == get_param_int(chuck, "OUTPUT_CHANNELS")

chugin_enable == bool(get_param_int(chuck, "CHUGIN_ENABLE"))

vm_adaptive == bool(get_param_int(chuck, "VM_ADAPTIVE"))

vm_halt == bool(get_param_int(chuck, "VM_HALT"))

auto_depend == bool(get_param_int(chuck, "AUTO_DEPEND"))

deprecate_level == get_param_int(chuck, "DEPRECATE_LEVEL")

dump_instructions == bool(get_param_int(chuck, "DUMP_INSTRUCTIONS"))

otf_enable == bool(get_param_int(chuck, "OTF_ENABLE"))

otf_port == get_param_int(chuck, "OTF_PORT")

tty_color == bool(get_param_int(chuck, "TTY_COLOR"))

tty_width_hint == get_param_int(chuck, "TTY_WIDTH_HINT")

\* -------------------------------------------------------------- Chuck.run
\* `if output is not None` : the caller's buffer is used.
\* Faulty variant: the caller's buffer is ignored when reuse is requested.
UseCallerOutput_unless_reuse(output, reuse) == output # None /\ ~reuse

UseCallerOutput(output, reuse) == output # None

\* Faulty variant: the internal pair is consulted in default mode too.
UseReuse_always(reuse) == TRUE

\* `elif reuse` : the internal buffer pair is consulted.
UseReuse(reuse) == reuse

\* Faulty variant: the pair is never reallocated once it exists.
ReuseStale_only_when_missing(num_frames) == reuse_output_buf = None

\* `if self._reuse_num_frames != num_frames or self._reuse_output_buf is None`
ReuseStale(num_frames) ==
    reuse_num_frames # num_frames \/ reuse_output_buf = None

\* `elif reuse and self._reuse_input_buf is not None` : evaluated on the
\* slot as the output branch left it.
UseReuseInput(reuse, slot_input) == reuse /\ slot_input # None

\* Faulty variant: on a size change only the output buffer of the pair is
\* replaced.
RunBuffers_output_only(num_frames, output, input, reuse) ==
    LET in_channels == input_channels
        out_channels == output_channels
        realloc == /\ ~UseCallerOutput(output, reuse)
                   /\ UseReuse(reuse)
                   /\ ReuseStale(num_frames)
        new_out == np_zeros(FreshId(LiveIds), num_frames * out_channels)
        new_in == np_zeros(FreshId(LiveIds \cup {new_out.id}),
                           num_frames * in_channels)
        slot_out == IF realloc THEN new_out ELSE reuse_output_buf
        slot_in == IF realloc /\ reuse_input_buf = None THEN new_in
                   ELSE reuse_input_buf
        slot_nf == IF realloc THEN num_frames ELSE reuse_num_frames
        used == LiveIds \cup ({slot_out.id, slot_in.id} \ {0})
        output_buf ==
            IF UseCallerOutput(output, reuse) THEN output
            ELSE IF UseReuse(reuse) THEN slot_out
            ELSE np_zeros(FreshId(used), num_frames * out_channels)
        used2 == IF output_buf.own = "np" THEN used \cup {output_buf.id} ELSE used
        input_buf ==
            IF input # None THEN input
            ELSE IF UseReuseInput(reuse, slot_in) THEN slot_in
            ELSE np_zeros(FreshId(used2), num_frames * in_channels)
    IN [output_buf |-> output_buf, input_buf |-> input_buf,
        reuse_output_buf |-> slot_out, reuse_input_buf |-> slot_in,
        reuse_num_frames |-> slot_nf]

\* The buffers run() selects and the reuse slots as it leaves them, all
\* determined before the engine is called.
RunBuffers(num_frames, output, input, reuse) ==
    LET in_channels == input_channels
        out_channels == output_channels
        realloc == /\ ~UseCallerOutput(output, reuse)
                   /\ UseReuse(reuse)
                   /\ ReuseStale(num_frames)
        new_out == np_zeros(FreshId(LiveIds), num_frames * out_channels)
        new_in == np_zeros(FreshId(LiveIds \cup {new_out.id}),
                           num_frames * in_channels)
        slot_out == IF realloc THEN new_out ELSE reuse_output_buf
        slot_in == IF realloc THEN new_in ELSE reuse_input_buf
        slot_nf == IF realloc THEN num_frames ELSE reuse_num_frames
        used == LiveIds \cup ({slot_out.id, slot_in.id} \ {0})
        output_buf ==
            IF UseCallerOutput(output, reuse) THEN output
            ELSE IF UseReuse(reuse) THEN slot_out
            ELSE np_zeros(FreshId(used), num_frames * out_channels)
        used2 == IF output_buf.own = "np" THEN used \cup {output_buf.id} ELSE used
        input_buf ==
            IF input # None THEN input
            ELSE IF UseReuseInput(reuse, slot_in) THEN slot_in
            ELSE np_zeros(FreshId(used2), num_frames * in_channels)
    IN [output_buf |-> output_buf, input_buf |-> input_buf,
        reuse_output_buf |-> slot_out, reuse_input_buf |-> slot_in,
        reuse_num_frames |-> slot_nf]

\* The engine writes its samples into the output buffer in place.
Written(b, wrote) == IF wrote THEN [b EXCEPT !.zero = FALSE] ELSE b

\* The body of Chuck.run on engine state e: the reuse slots are assigned
\* before the engine is called, so they change even when the call raises.
\* The result: the outcomes of the call, each with the state it leaves.
RunOutcomes(e, num_frames, output, input, reuse) ==
    LET b == RunBuffers(num_frames, output, input, reuse)
    IN {[chuck |-> r.chuck,
         err |-> r.err,
         calls |-> r.calls,
         ret |-> IF r.err = NoErr THEN Written(b.output_buf, r.wrote) ELSE None,
         run |-> EngineCall(b.input_buf, b.output_buf, num_frames),
         reuse_output_buf |->
             IF Ident(b.reuse_output_buf) = Ident(b.output_buf)
             THEN Written(b.reuse_output_buf, r.wrote)
             ELSE b.reuse_output_buf,
         reuse_input_buf |-> b.reuse_input_buf,
         reuse_num_frames |-> b.reuse_num_frames] :
        r \in chuck_run(e, b.input_buf, b.output_buf, num_frames)}

\* The buffers a caller may pass for a request of n frames on ch channels:
\* one of the promised length, one that is too long.
CallerBufs(n, ch, zeros) ==
    {CallerBuf(1, len, z) : len \in {n * ch}, z \in zeros}

\* Chuck.run; retain tells what the caller does with the array it gets back:
\* bind it to a name of its own, or to the name of the previous one.
run_held(num_frames, output, input, reuse, retain) ==
    /\ pkg = "numchuck" \/ (output = None /\ input = None /\ ~reuse)
    /\ chuck.now + num_frames <= MaxTime
    /\ \E o \in RunOutcomes(chuck, num_frames, output, input, reuse) :
          /\ chuck' = o.chuck
          /\ reuse_output_buf' = o.reuse_output_buf
          /\ reuse_input_buf' = o.reuse_input_buf
          /\ reuse_num_frames' = o.reuse_num_frames
          /\ held' = IF o.ret.own # "np" THEN held
                      ELSE IF retain THEN Retain(held, o.ret.id)
                      ELSE Keep(held, o.ret.id)
          /\ fired' = Gc(Deliver(Quiet(fired), o.calls), o.chuck)
          /\ last' = [NoCall EXCEPT !.op = "run", !.num_frames = num_frames,
                                    !.reuse = reuse, !.output = output,
                                    !.input = input, !.ret = o.ret,
                                    !.err = o.err, !.runs = <<o.run>>,
                                    !.cbs = CalledBack(o.calls)]
    /\ UNCHANGED <<tui, pkg>>

run(num_frames, output, input, reuse) ==
    run_held(num_frames, output, input, reuse, FALSE)

\* ---------------------------------------------------------- Chuck.advance
\* Faulty variant: the throwaway output buffer is sized for one channel.
AdvanceBuffers_mono(num_frames) ==
    LET input_buf == np_zeros(FreshId(LiveIds), num_frames * input_channels)
        output_buf == np_zeros(FreshId(LiveIds \cup {input_buf.id}), num_frames)
    IN [input_buf |-> input_buf, output_buf |-> output_buf]

\* Faulty variant: advance renders into the reuse pair when its size fits.
AdvanceBuffers_cached(num_frames) ==
    LET in_channels == input_channels
        out_channels == output_channels
        fresh_in == np_zeros(FreshId(LiveIds), num_frames * in_channels)
        fresh_out == np_zeros(FreshId(LiveIds \cup {fresh_in.id}),
                              num_frames * out_channels)
        cached == reuse_output_buf # None /\ reuse_num_frames = num_frames
    IN [input_buf |-> IF cached THEN reuse_input_buf ELSE fresh_in,
        output_buf |-> IF cached THEN reuse_output_buf ELSE fresh_out]

AdvanceBuffers(num_frames) ==
    LET in_channels == input_channels
        out_channels == output_channels
        input_buf == np_zeros(FreshId(LiveIds), num_frames * in_channels)
        output_buf == np_zeros(FreshId(LiveIds \cup {input_buf.id}),
                               num_frames * out_channels)
    IN [input_buf |-> input_buf, output_buf |-> output_buf]

advance(num_frames) ==
    /\ pkg = "numchuck"
    /\ chuck.now + num_frames <= MaxTime
    /\ LET b == AdvanceBuffers(num_frames)
       IN \E r \in chuck_run(chuck, b.input_buf, b.output_buf, num_frames) :
             /\ chuck' = r.chuck
             /\ fired' = Gc(Deliver(Quiet(fired), r.calls), r.chuck)
             /\ last' = [NoCall EXCEPT !.op = "advance", !.num_frames = num_frames,
                                       !.err = r.err,
                                       !.runs = <<EngineCall(b.input_buf, b.output_buf,
                                                             num_frames)>>,
                                       !.cbs = CalledBack(r.calls)]
    /\ UNCHANGED <<tui, pkg, reuse_input_buf, reuse_output_buf, reuse_num_frames, held>>

\* ------------------------------------------------- Chuck.init, Chuck.raw
\* Chuck.init(): the binding's init(), which may be called again.
init ==
    /\ chuck' = chuck_init(chuck)
    /\ \E report \in InitReports(chuck) :
          last' = [NoCall EXCEPT !.op = "init", !.ok = (report = "true"),
                                 !.err = IF report = "raise" THEN ConfigError
                                         ELSE NoErr]
    /\ fired' = Quiet(fired)
    /\ UNCHANGED <<tui, pkg, reuse_input_buf, reuse_output_buf, reuse_num_frames, held>>

\* chuck.raw.set_param(key, value): staging a parameter through the
\* low-level instance the wrapper exposes.
raw_set_param(key, value) ==
    /\ chuck' = set_param(chuck, key, value)
    /\ last' = [NoCall EXCEPT !.op = "set_param", !.name = key, !.val = value]
    /\ fired' = Quiet(fired)
    /\ UNCHANGED <<tui, pkg, reuse_input_buf, reuse_output_buf, reuse_num_frames, held>>

\* ------------------------------------------------------- shred management
WrapperUnchanged ==
    UNCHANGED <<tui, pkg, reuse_input_buf, reuse_output_buf, reuse_num_frames, held>>

Call(op) == [NoCall EXCEPT !.op = op]

\* A call of the binding made before init(): it raises, nothing changes.
NotReady(op) ==
    /\ ~chuck.init
    /\ last' = [Call(op) EXCEPT !.err = EngineNotReady]
    /\ fired' = Quiet(fired)
    /\ UNCHANGED chuck
    /\ WrapperUnchanged

\* A call that only hands one control message to the engine.
Send(op, m, rec) ==
    /\ chuck.init
    /\ Len(chuck.queue) < MaxQueue
    /\ chuck' = Enqueue(chuck, m)
    /\ last' = rec
    /\ fired' = Quiet(fired)
    /\ WrapperUnchanged

\* Faulty variant: a failed compilation is raised as an error.
compile_strict(code, count, immediate) ==
    \/ NotReady("compile")
    \/ /\ chuck.init
       /\ code # "bad" =>
            /\ chuck.next_id + count - 1 <= MaxShredId
            /\ immediate \/ Len(chuck.queue) + count <= MaxQueue
       /\ LET r == compile_code(chuck, code, count, immediate)
          IN /\ chuck' = r.chuck
             /\ last' = [Call("compile") EXCEPT
                            !.ok = r.ok, !.ids = r.ids, !.name = code, !.val = count,
                            !.err = IF r.ok THEN NoErr
                                    ELSE [kind |-> "RuntimeError", name |-> code,
                                          frames |-> -1]]
       /\ fired' = Quiet(fired)
       /\ WrapperUnchanged

\* Faulty variant: count is not passed on (the binding's default of 1).
compile_single(code, count, immediate) ==
    \/ NotReady("compile")
    \/ /\ chuck.init
       /\ code # "bad" =>
            /\ chuck.next_id + count - 1 <= MaxShredId
            /\ immediate \/ Len(chuck.queue) + count <= MaxQueue
       /\ LET r == compile_code(chuck, code, 1, immediate)
          IN /\ chuck' = r.chuck
             /\ last' = [Call("compile") EXCEPT !.ok = r.ok, !.ids = r.ids,
                                                !.name = code, !.val = count]
       /\ fired' = Quiet(fired)
       /\ WrapperUnchanged

\* Faulty variant: compile is refused while the real-time thread is active.
compile_guarded(code, count, immediate) ==
    \/ NotReady("compile")
    \/ /\ chuck.init
       /\ chuck.audio
       /\ chuck' = chuck
       /\ last' = [Call("compile") EXCEPT !.err = RaceCondition, !.name = code,
                                          !.val = count]
       /\ fired' = Quiet(fired)
       /\ WrapperUnchanged
    \/ /\ chuck.init
       /\ ~chuck.audio
       /\ code # "bad" =>
            /\ chuck.next_id + count - 1 <= MaxShredId
            /\ immediate \/ Len(chuck.queue) + count <= MaxQueue
       /\ LET r == compile_code(chuck, code, count, immediate)
          IN /\ chuck' = r.chuck
             /\ last' = [Call("compile") EXCEPT !.ok = r.ok, !.ids = r.ids,
                                                !.name = code, !.val = count]
       /\ fired' = Quiet(fired)
       /\ WrapperUnchanged

compile(code, count, immediate) ==
    \/ NotReady("compile")
    \/ /\ chuck.init
       /\ code # "bad" =>
            /\ chuck.next_id + count - 1 <= MaxShredId
            /\ immediate \/ Len(chuck.queue) + count <= MaxQueue
       /\ LET r == compile_code(chuck, code, count, immediate)
          IN /\ chuck' = r.chuck
             /\ last' = [Call("compile") EXCEPT !.ok = r.ok, !.ids = r.ids,
                                                !.name = code, !.val = count]
       /\ fired' = Quiet(fired)
       /\ WrapperUnchanged

\* Faulty variant: the id is taken for a position and passed on less one.
remove_shred_index(shred_id) ==
    \/ NotReady("remove_shred")
    \/ Send("remove_shred", remove_shred_msg(shred_id - 1),
            [Call("remove_shred") EXCEPT !.val = shred_id])

\* Faulty variant: removing an id that is not live raises.
remove_shred_strict(shred_id) ==
    \/ NotReady("remove_shred")
    \/ /\ chuck.init /\ shred_id \notin get_all_shred_ids(chuck)
       /\ last' = [Call("remove_shred") EXCEPT
                      !.val = shred_id,
                      !.err = [kind |-> "RuntimeError", name |-> "", frames |-> -1]]
       /\ fired' = Quiet(fired)
       /\ UNCHANGED chuck
       /\ WrapperUnchanged
    \/ /\ shred_id \in get_all_shred_ids(chuck)
       /\ Send("remove_shred", remove_shred_msg(shred_id),
               [Call("remove_shred") EXCEPT !.val = shred_id])

remove_shred(shred_id) ==
    \/ NotReady("remove_shred")
    \/ Send("remove_shred", remove_shred_msg(shred_id),
            [Call("remove_shred") EXCEPT !.val = shred_id])

\* Faulty variant: the id that was passed in is returned on success.
replace_shred_same(shred_id, code) ==
    \/ NotReady("replace_shred")
    \/ /\ chuck.init
       /\ Len(chuck.queue) < MaxQueue
       /\ chuck.next_id <= MaxShredId
       /\ LET r == replace_shred_result(chuck, shred_id, code)
          IN /\ chuck' = r.chuck
             /\ last' = [Call("replace_shred") EXCEPT
                            !.val = IF r.id # 0 THEN shred_id ELSE 0,
                            !.name = code, !.ids = <<shred_id>>]
       /\ fired' = Quiet(fired)
       /\ WrapperUnchanged

\* Faulty variant: the zero the binding returns on failure is raised.
replace_shred_strict(shred_id, code) ==
    \/ NotReady("replace_shred")
    \/ /\ chuck.init
       /\ Len(chuck.queue) < MaxQueue
       /\ chuck.next_id <= MaxShredId
       /\ LET r == replace_shred_result(chuck, shred_id, code)
          IN /\ chuck' = r.chuck
             /\ last' = [Call("replace_shred") EXCEPT
                            !.val = r.id, !.name = code, !.ids = <<shred_id>>,
                            !.err = IF r.id # 0 THEN NoErr
                                    ELSE [kind |-> "RuntimeError", name |-> code,
                                          frames |-> -1]]
       /\ fired' = Quiet(fired)
       /\ WrapperUnchanged

replace_shred(shred_id, code) ==
    \/ NotReady("replace_shred")
    \/ /\ chuck.init
       /\ Len(chuck.queue) < MaxQueue
       /\ chuck.next_id <= MaxShredId
       /\ LET r == replace_shred_result(chuck, shred_id, code)
          IN /\ chuck' = r.chuck
             /\ last' = [Call("replace_shred") EXCEPT !.val = r.id, !.name = code,
                                                      !.ids = <<shred_id>>]
       /\ fired' = Quiet(fired)
       /\ WrapperUnchanged

\* Faulty variant: clear resets the id generator instead of the table.
clear_as_reset ==
    \/ NotReady("clear")
    \/ /\ chuck.init
       /\ chuck' = reset_shred_id(chuck)
       /\ last' = Call("clear")
       /\ fired' = Quiet(fired)
       /\ WrapperUnchanged

\* Faulty variant: clear also puts the staged options back to the defaults.
clear_defaults ==
    \/ NotReady("clear")
    \/ /\ chuck.init
       /\ Len(chuck.queue) < MaxQueue
       /\ chuck' = [Enqueue(chuck, event_msg("clear", "")) EXCEPT
                       !.param = DefaultParams]
       /\ last' = Call("clear")
       /\ fired' = Quiet(fired)
       /\ WrapperUnchanged

clear ==
    \/ NotReady("clear")
    \/ Send("clear", event_msg("clear", ""), Call("clear"))

\* Faulty variant: reset_id clears the shred table.
reset_id_as_clear ==
    \/ NotReady("reset_id")
    \/ Send("reset_id", event_msg("clear", ""), Call("reset_id"))

reset_id ==
    \/ NotReady("reset_id")
    \/ /\ chuck.init
       /\ chuck' = reset_shred_id(chuck)
       /\ last' = Call("reset_id")
       /\ fired' = Quiet(fired)
       /\ WrapperUnchanged

\* --------------------------------------------------------- global variables
\* Faulty variant: every setter calls the binding's set_global_int.
set_scalar_as_int(t, name, value) ==
    \/ NotReady("set_" \o t)
    \/ Send("set_" \o t, set_global_msg("int", name, value),
            [Call("set_" \o t) EXCEPT !.t = t, !.name = name, !.val = value])

\* set_int / set_float / set_string
set_scalar(t, name, value) ==
    \/ NotReady("set_" \o t)
    \/ Send("set_" \o t, set_global_msg(t, name, value),
            [Call("set_" \o t) EXCEPT !.t = t, !.name = name, !.val = value])

set_int(name, value) == set_scalar("int", name, value)

set_float(name, value) == set_scalar("float", name, value)

set_string(name, value) == set_scalar("string", name, value)

\* The RuntimeError a get_* call raises when its result list stayed empty:
\* numchuck's message gives the variable and run_frames, pychuck's only the
\* variable.
numchuck_timeout(name, run_frames) ==
    [kind |-> "RuntimeError", name |-> name, frames |-> run_frames]

pychuck_timeout(name, run_frames) ==
    [kind |-> "RuntimeError", name |-> name, frames |-> -1]

\* Faulty variant: an empty result list is not reported.
CallbackNotInvoked_silent(name, run_frames) == NoErr

CallbackNotInvoked(name, run_frames) ==
    IF pkg = "numchuck" THEN numchuck_timeout(name, run_frames)
    ELSE pychuck_timeout(name, run_frames)

\* How many times get_* calls self.run(run_frames).
GetRuns == 1

\* get_int / get_float / get_string: a lambda appending to a fresh result
\* list is registered, self.run(run_frames) renders (its buffer is dropped),
\* and the first element of the list is the value.
RECURSIVE GetRender(_, _, _)
GetRender(e, run_frames, k) ==
    IF k = 0
    THEN {[chuck |-> e, err |-> NoErr, calls |-> <<>>, runs |-> <<>>,
           reuse_output_buf |-> reuse_output_buf,
           reuse_input_buf |-> reuse_input_buf,
           reuse_num_frames |-> reuse_num_frames]}
    ELSE UNION {
            IF o.err # NoErr
            THEN {[chuck |-> o.chuck, err |-> o.err, calls |-> o.calls,
                   runs |-> <<o.run>>,
                   reuse_output_buf |-> o.reuse_output_buf,
                   reuse_input_buf |-> o.reuse_input_buf,
                   reuse_num_frames |-> o.reuse_num_frames]}
            ELSE {[r EXCEPT !.calls = o.calls \o @, !.runs = <<o.run>> \o @] :
                     r \in GetRender(o.chuck, run_frames, k - 1)} :
            o \in RunOutcomes(e, run_frames, None, None, FALSE)}

\* Faulty variant: every get lambda appends to one result list, so the first
\* value delivered in the pass is returned, whoever it was for.
get_scalar_shared(t, name, run_frames) ==
    \/ NotReady("get_" \o t)
    \/ /\ chuck.init
       /\ Len(chuck.queue) < MaxQueue
       /\ Cardinality(DOMAIN fired) < MaxCb
       /\ chuck.now + GetRuns * run_frames <= MaxTime
       /\ LET cb == FreshId(DOMAIN fired)
              registered == Quiet(fired) @@ (cb :> [owner |-> "get", vals |-> <<>>])
              queued == Enqueue(chuck, get_global_msg(t, name, cb))
          IN \E o \in GetRender(queued, run_frames, GetRuns) :
                LET after == Deliver(registered, o.calls)
                    shared == {k \in 1..Len(o.calls) : registered[o.calls[k][1]].owner = "get"}
                    result == IF shared = {} THEN <<>>
                              ELSE <<o.calls[CHOOSE k \in shared : \A m \in shared : k <= m][2]>>
                IN /\ chuck' = o.chuck
                   /\ reuse_output_buf' = o.reuse_output_buf
                   /\ reuse_input_buf' = o.reuse_input_buf
                   /\ reuse_num_frames' = o.reuse_num_frames
                   /\ fired' = Gc(after, o.chuck)
                   /\ last' = [Call("get_" \o t) EXCEPT
                                 !.t = t, !.name = name, !.num_frames = run_frames,
                                 !.runs = o.runs,
                                 !.cbs = CalledBack(o.calls),
                                 !.ok = o.err = NoErr /\ result # <<>>,
                                 !.val = IF o.err = NoErr /\ result # <<>>
                                         THEN result[1] ELSE 0,
                                 !.err = IF o.err # NoErr THEN o.err
                                         ELSE IF result = <<>>
                                         THEN CallbackNotInvoked(name, run_frames)
                                         ELSE NoErr]
       /\ UNCHANGED <<tui, pkg, held>>

get_scalar(t, name, run_frames) ==
    \/ NotReady("get_" \o t)
    \/ /\ chuck.init
       /\ Len(chuck.queue) < MaxQueue
       /\ Cardinality(DOMAIN fired) < MaxCb
       /\ chuck.now + GetRuns * run_frames <= MaxTime
       /\ LET cb == FreshId(DOMAIN fired)
              registered == Quiet(fired) @@ (cb :> [owner |-> "get", vals |-> <<>>])
              queued == Enqueue(chuck, get_global_msg(t, name, cb))
          IN \E o \in GetRender(queued, run_frames, GetRuns) :
                LET after == Deliver(registered, o.calls)
                    result == after[cb].vals
                IN /\ chuck' = o.chuck
                   /\ reuse_output_buf' = o.reuse_output_buf
                   /\ reuse_input_buf' = o.reuse_input_buf
                   /\ reuse_num_frames' = o.reuse_num_frames
                   /\ fired' = Gc(after, o.chuck)
                   /\ last' = [Call("get_" \o t) EXCEPT
                                 !.t = t, !.name = name, !.num_frames = run_frames,
                                 !.runs = o.runs,
                                 !.cbs = CalledBack(o.calls),
                                 !.ok = o.err = NoErr /\ result # <<>>,
                                 !.val = IF o.err = NoErr /\ result # <<>>
                                         THEN result[1] ELSE 0,
                                 !.err = IF o.err # NoErr THEN o.err
                                         ELSE IF result = <<>>
                                         THEN CallbackNotInvoked(name, run_frames)
                                         ELSE NoErr]
       /\ UNCHANGED <<tui, pkg, held>>

get_int(name, run_frames) == get_scalar("int", name, run_frames)

get_float(name, run_frames) == get_scalar("float", name, run_frames)

get_string(name, run_frames) == get_scalar("string", name, run_frames)

\* The callbacks the caller can pass: one it already has, or a new one.
CallerCallbacks ==
    {c \in DOMAIN fired : fired[c].owner = "caller"} \cup
    (IF Cardinality(DOMAIN fired) < MaxCb THEN {FreshId(DOMAIN fired)} ELSE {})

WithCallback(f, cb) ==
    IF cb \in DOMAIN f THEN f ELSE f @@ (cb :> [owner |-> "caller", vals |-> <<>>])

\* Faulty variant: the asynchronous get renders a frame on its own.
get_scalar_async_rendering(t, name, callback) ==
    \/ NotReady("get_" \o t \o "_async")
    \/ /\ chuck.init
       /\ Len(chuck.queue) < MaxQueue
       /\ chuck.now < MaxTime
       /\ LET o == EngineCompute(Enqueue(chuck, get_global_msg(t, name, callback)), 1)
          IN /\ chuck' = o.chuck
             /\ fired' = WithCallback(Quiet(fired), callback)
             /\ last' = [Call("get_" \o t \o "_async") EXCEPT !.t = t, !.name = name]
       /\ WrapperUnchanged

\* Faulty variant: the callback is kept but the request never reaches the
\* binding.
get_scalar_async_dropped(t, name, callback) ==
    \/ NotReady("get_" \o t \o "_async")
    \/ /\ chuck.init
       /\ fired' = WithCallback(Quiet(fired), callback)
       /\ last' = [Call("get_" \o t \o "_async") EXCEPT !.t = t, !.name = name,
                                                       !.val = callback]
       /\ UNCHANGED chuck
       /\ WrapperUnchanged

\* Faulty variant: the request is handed to the engine twice.
get_scalar_async_twice(t, name, callback) ==
    \/ NotReady("get_" \o t \o "_async")
    \/ /\ chuck.init
       /\ Len(chuck.queue) + 1 < MaxQueue
       /\ chuck' = Enqueue(Enqueue(chuck, get_global_msg(t, name, callback)),
                           get_global_msg(t, name, callback))
       /\ fired' = WithCallback(Quiet(fired), callback)
       /\ last' = [Call("get_" \o t \o "_async") EXCEPT !.t = t, !.name = name,
                                                       !.val = callback]
       /\ WrapperUnchanged

\* get_int_async / get_float_async / get_string_async
get_scalar_async(t, name, callback) ==
    \/ NotReady("get_" \o t \o "_async")
    \/ /\ chuck.init
       /\ Len(chuck.queue) < MaxQueue
       /\ chuck' = Enqueue(chuck, get_global_msg(t, name, callback))
       /\ fired' = WithCallback(Quiet(fired), callback)
       /\ last' = [Call("get_" \o t \o "_async") EXCEPT !.t = t, !.name = name,
                                                       !.val = callback]
       /\ WrapperUnchanged

get_int_async(name, callback) == get_scalar_async("int", name, callback)

get_float_async(name, callback) == get_scalar_async("float", name, callback)

get_string_async(name, callback) == get_scalar_async("string", name, callback)

\* ------------------------------------------------------------ global events
\* Faulty variant: signalling delivers the event to the listeners at once.
signal_event_delivering(name) ==
    \/ NotReady("signal_event")
    \/ /\ chuck.init
       /\ Len(chuck.queue) < MaxQueue
       /\ LET o == Drain(Enqueue(chuck, event_msg("signal", name)), <<>>)
          IN /\ chuck' = o.chuck
             /\ fired' = Gc(Deliver(Quiet(fired), o.calls), o.chuck)
             /\ last' = [Call("signal_event") EXCEPT !.name = name,
                                                     !.cbs = CalledBack(o.calls)]
       /\ WrapperUnchanged

\* Faulty variant: signalling calls the binding's broadcast.
signal_event_as_broadcast(name) ==
    \/ NotReady("signal_event")
    \/ Send("signal_event", event_msg("broadcast", name),
            [Call("signal_event") EXCEPT !.name = name])

signal_event(name) ==
    \/ NotReady("signal_event")
    \/ Send("signal_event", event_msg("signal", name),
            [Call("signal_event") EXCEPT !.name = name])

\* Faulty variant: broadcasting to a name that is not declared raises.
broadcast_event_checked(name) ==
    \/ NotReady("broadcast_event")
    \/ /\ chuck.init /\ ~(chuck.declared /\ name = "x")
       /\ last' = [Call("broadcast_event") EXCEPT
                      !.name = name,
                      !.err = [kind |-> "RuntimeError", name |-> name, frames |-> -1]]
       /\ fired' = Quiet(fired)
       /\ UNCHANGED chuck
       /\ WrapperUnchanged
    \/ /\ chuck.declared /\ name = "x"
       /\ Send("broadcast_event", event_msg("broadcast", name),
               [Call("broadcast_event") EXCEPT !.name = name])

broadcast_event(name) ==
    \/ NotReady("broadcast_event")
    \/ Send("broadcast_event", event_msg("broadcast", name),
            [Call("broadcast_event") EXCEPT !.name = name])

\* Faulty variant: the binding's registration id is not returned.
on_event_no_return(name, callback, listen_forever) ==
    \/ NotReady("on_event")
    \/ /\ chuck.init
       /\ Len(chuck.queue) < MaxQueue
       /\ chuck.next_listener <= MaxCb
       /\ chuck' = Enqueue([chuck EXCEPT !.next_listener = @ + 1],
                           listen_msg(chuck.next_listener, name, callback,
                                      listen_forever))
       /\ fired' = WithCallback(Quiet(fired), callback)
       /\ last' = [Call("on_event") EXCEPT !.name = name, !.val = 0,
                                           !.ok = listen_forever]
       /\ WrapperUnchanged

\* Faulty variant: listen_forever is not passed on (the binding's default).
on_event_forever(name, callback, listen_forever) ==
    \/ NotReady("on_event")
    \/ /\ chuck.init
       /\ Len(chuck.queue) < MaxQueue
       /\ chuck.next_listener <= MaxCb
       /\ chuck' = Enqueue([chuck EXCEPT !.next_listener = @ + 1],
                           listen_msg(chuck.next_listener, name, callback, TRUE))
       /\ fired' = WithCallback(Quiet(fired), callback)
       /\ last' = [Call("on_event") EXCEPT !.name = name,
                                           !.val = chuck.next_listener,
                                           !.ok = listen_forever]
       /\ WrapperUnchanged

on_event(name, callback, listen_forever) ==
    \/ NotReady("on_event")
    \/ /\ chuck.init
       /\ Len(chuck.queue) < MaxQueue
       /\ chuck.next_listener <= MaxCb
       /\ chuck' = Enqueue([chuck EXCEPT !.next_listener = @ + 1],
                           listen_msg(chuck.next_listener, name, callback,
                                      listen_forever))
       /\ fired' = WithCallback(Quiet(fired), callback)
       /\ last' = [Call("on_event") EXCEPT !.name = name,
                                           !.val = chuck.next_listener,
                                           !.ok = listen_forever]
       /\ WrapperUnchanged

\* Faulty variant: the registration id is not passed on.
stop_listening_for_event_no_id(name, callback_id) ==
    \/ NotReady("stop_listening_for_event")
    \/ Send("stop_listening_for_event", unlisten_msg(name, 0),
            [Call("stop_listening_for_event") EXCEPT !.name = name,
                                                     !.val = callback_id])

stop_listening_for_event(name, callback_id) ==
    \/ NotReady("stop_listening_for_event")
    \/ Send("stop_listening_for_event", unlisten_msg(name, callback_id),
            [Call("stop_listening_for_event") EXCEPT !.name = name,
                                                     !.val = callback_id])

\* ---------------------------------------------------------- specifications
RunCall ==
    \E n \in FrameVals, reuse \in BOOLEAN :
        \E output \in {None} \cup CallerBufs(n, output_channels, {TRUE}),
           input \in {None} \cup CallerBufs(n, input_channels, {FALSE}) :
            run(n, output, input, reuse)

AdvanceCall == \E n \in FrameVals : advance(n)

SetParamCall ==
    \E key \in {"INPUT_CHANNELS", "OUTPUT_CHANNELS"}, v \in ChanVals :
        raw_set_param(key, v)

InitRender == Init /\ pkg = "numchuck"

RunDefault == \E n \in FrameVals : run(n, None, None, FALSE)

CompileCall ==
    \E code \in Sources, count \in 1..2, immediate \in BOOLEAN :
        compile(code, count, immediate)

RemoveCall == \E id \in 1..MaxShredId + 1 : remove_shred(id)

ReplaceCall == \E id \in 1..MaxShredId + 1, code \in Sources : replace_shred(id, code)

SetCall ==
    \E name \in Names, v \in Vals :
        set_int(name, v) \/ set_float(name, v) \/ set_string(name, v)

GetCall ==
    \E name \in Names, n \in FrameVals :
        get_int(name, n) \/ get_float(name, n) \/ get_string(name, n)

GetAsyncCall ==
    \E name \in Names, cb \in CallerCallbacks :
        \/ get_int_async(name, cb)
        \/ get_float_async(name, cb)
        \/ get_string_async(name, cb)

EventCall ==
    \E name \in Names :
        \/ signal_event(name)
        \/ broadcast_event(name)
        \/ \E cb \in CallerCallbacks, forever \in BOOLEAN : on_event(name, cb, forever)
        \/ \E id \in 0..MaxCb : stop_listening_for_event(name, id)

Next ==
    \/ RunCall \/ AdvanceCall \/ init \/ SetParamCall
    \/ CompileCall \/ RemoveCall \/ ReplaceCall \/ clear \/ reset_id
    \/ SetCall \/ GetCall \/ GetAsyncCall \/ EventCall

Spec == Init /\ [][Next]_vars

\* The wrapper's buffer handling alone: run() in every mode and advance(),
\* for every construction of a numchuck instance.
NextRun == RunCall \/ AdvanceCall

SpecRun == InitRender /\ [][NextRun]_vars

\* Reuse-mode rendering across re-initialisation with other channel counts.
RunReuse == \E n \in FrameVals : run(n, None, None, TRUE)

NextReinit == RunReuse \/ init \/ SetParamCall

SpecReinit == InitRender /\ [][NextReinit]_vars

\* The backlog of control messages a call may leave behind in the two
\* specifications below.
MaxPending == 1

MaxPendingScalar == 2

Pending(k) == Len(chuck'.queue) <= k

\* The render / lifecycle / callback bridge of a numchuck instance built with
\* the default channel counts: every operation, on one global and one event.
InitBridge == InitRender /\ chuck.param = NewChucK.param

BridgeCompile ==
    /\ \/ compile("decl", 1, TRUE)
       \/ \E immediate \in BOOLEAN : compile("osc", 1, immediate)
    /\ Pending(MaxPending)

BridgeRemove == remove_shred(1) /\ Pending(MaxPending)

BridgeReplace == replace_shred(1, "osc") /\ Pending(MaxPending)

BridgeClear == clear /\ Pending(MaxPending)

BridgeSet == set_int("x", MaxVal) /\ Pending(MaxPending)

BridgeGet == (\E n \in 0..1 : get_int("x", n)) /\ Pending(MaxPending)

\* The callback the caller passes: the one it has, or else a new one.
BridgeCallbacks ==
    LET mine == {c \in DOMAIN fired : fired[c].owner = "caller"}
    IN IF mine # {} THEN mine ELSE CallerCallbacks

BridgeGetAsync ==
    (\E cb \in BridgeCallbacks : get_int_async("x", cb)) /\ Pending(MaxPending)

BridgeEvent ==
    /\ \/ signal_event("x")
       \/ broadcast_event("x")
       \/ \E cb \in BridgeCallbacks : on_event("x", cb, TRUE)
       \/ stop_listening_for_event("x", 1)
    /\ Pending(MaxPending)

NextBridge ==
    \/ RunDefault \/ AdvanceCall
    \/ BridgeCompile \/ BridgeRemove \/ BridgeReplace \/ BridgeClear \/ reset_id
    \/ BridgeSet \/ BridgeGet \/ BridgeGetAsync \/ BridgeEvent

SpecBridge == InitBridge /\ [][NextBridge]_vars

\* The scalar bridge of both packages: the globals are declared, set and read.
InitScalar == Init /\ chuck.param = NewChucK.param

ScalarCompile ==
    (\E immediate \in BOOLEAN : compile("decl", 1, immediate))
        /\ Pending(MaxPendingScalar)

ScalarSet ==
    /\ \E v \in Vals : set_int("x", v) \/ set_float("x", v) \/ set_string("x", v)
    /\ Pending(MaxPendingScalar)

ScalarGet ==
    /\ \E name \in Names, n \in FrameVals :
          get_int(name, n) \/ get_float(name, n) \/ get_string(name, n)
    /\ Pending(MaxPendingScalar)

NextScalar == ScalarCompile \/ ScalarSet \/ ScalarGet

SpecScalar == InitScalar /\ [][NextScalar]_vars

\* The event bridge of a numchuck instance: listeners are registered (each
\* with a callback of its own) and removed, events are signalled and
\* broadcast, on a declared and on an undeclared name.
MaxPendingEvents == 2

EventsCompile == compile("decl", 1, TRUE) /\ Pending(MaxPendingEvents)

EventsListen ==
    /\ \E name \in Names, forever \in BOOLEAN :
          on_event(name, chuck.next_listener, forever)
    /\ Pending(MaxPendingEvents)

EventsSignal ==
    /\ \E name \in Names : signal_event(name) \/ broadcast_event(name)
    /\ Pending(MaxPendingEvents)

EventsStop ==
    /\ \E id \in 1..MaxCb : stop_listening_for_event("x", id)
    /\ Pending(MaxPendingEvents)

EventsRender == advance(1)

NextEvents ==
    EventsCompile \/ EventsListen \/ EventsSignal \/ EventsStop \/ EventsRender

SpecEvents == InitBridge /\ [][NextEvents]_vars

\* Shreds that wait on the event, and the calls that fire it.
WaitCompile ==
    \E count \in 1..2, immediate \in BOOLEAN : compile("wait", count, immediate)

WaitSignal == \E name \in Names : signal_event(name) \/ broadcast_event(name)

WaitRender == \E n \in 0..1 : advance(n)

NextWait == WaitCompile \/ WaitSignal \/ WaitRender

SpecWait == InitBridge /\ [][NextWait]_vars

\* The shred lifecycle of a numchuck instance: every source is compiled, in
\* one or two instances, at once or queued; shreds are removed, replaced and
\* cleared, and the id generator is reset.
MaxPendingShreds == 2

ShredsCompile ==
    /\ \E code \in Sources, count \in 1..2, immediate \in BOOLEAN :
          compile(code, count, immediate)
    /\ Pending(MaxPendingShreds)

ShredsRemove ==
    /\ \E id \in 1..MaxShredId + 1 : remove_shred(id)
    /\ Pending(MaxPendingShreds)

ShredsReplace ==
    /\ \E id \in 1..MaxShredId, code \in {"osc", "bad"} : replace_shred(id, code)
    /\ Pending(MaxPendingShreds)

ShredsClear == clear /\ Pending(MaxPendingShreds)

ShredsRender == advance(1)

NextShreds ==
    \/ ShredsCompile \/ ShredsRemove \/ ShredsReplace \/ ShredsClear
    \/ reset_id \/ ShredsRender

SpecShreds == InitBridge /\ [][NextShreds]_vars

\* ------------------------------------------------------------------ claims
IsRun(c) == c.op = "run"

ReuseRun(c) == IsRun(c) /\ c.reuse /\ c.output = None

DefaultRun(c) == IsRun(c) /\ ~c.reuse /\ c.output = None

Returned(c) == c.err = NoErr

\* C1: of two consecutive run(n, reuse=True) calls without a caller output
\* buffer, the second returns the very object the first returned when its
\* num_frames is the same, and an object distinct from it, of length
\* num_frames * output_channels, when its num_frames differs.
C1_ReuseIdentity ==
    [][(ReuseRun(last) /\ Returned(last) /\ ReuseRun(last') /\ Returned(last'))
        => IF last'.num_frames = last.num_frames
           THEN Ident(last'.ret) = Ident(last.ret)
           ELSE /\ Ident(last'.ret) # Ident(last.ret)
                /\ last'.ret.len = last'.num_frames * output_channels]_vars

\* C1 witness: a reuse-mode call has returned a second internal buffer, sized
\* for its own request, while the caller still holds the array it returned.
C1_Witness ==
    /\ ReuseRun(last) /\ Returned(last)
    /\ last.num_frames > 0
    /\ last.ret.id > 2
    /\ last.ret.len = last.num_frames * output_channels
    /\ held = <<last.ret.id>>

\* C2 (as claimed): in reuse mode the buffer handed to the engine has length
\* num_frames * the current output_channels, whatever happened before (a
\* re-init with another channel count included); stated for an engine that
\* is initialized with the channel counts the wrapper reports.
C2_ReuseMatchesChannels ==
    (/\ ReuseRun(last) /\ last.runs # <<>>
     /\ chuck.init
     /\ chuck.vm_out = output_channels /\ chuck.vm_in = input_channels)
        => /\ last.runs[1].output.len = last.num_frames * output_channels
           /\ last.runs[1].input.len = last.num_frames * input_channels

\* C3 (as claimed): without a caller input buffer the engine is handed an
\* all-zero input buffer of exactly num_frames * input_channels samples, for
\* every combination of the output and reuse arguments.
C3_SilentInput ==
    (IsRun(last) /\ last.input = None /\ last.runs # <<>>)
        => /\ last.runs[1].input.len = last.num_frames * input_channels
           /\ last.runs[1].input.zero

\* C4: a run() given an output buffer hands the engine that very object,
\* returns it, and leaves the reuse pair and its size tag as they were, with
\* reuse=True as without.
C4_CallerOutput ==
    [][(IsRun(last') /\ last'.output # None)
        => /\ Ident(last'.runs[1].output) = Ident(last'.output)
           /\ last'.runs[1].output.len = last'.output.len
           /\ Returned(last') => /\ Ident(last'.ret) = Ident(last'.output)
                                 /\ last'.ret.len = last'.output.len
           /\ reuse_output_buf' = reuse_output_buf
           /\ reuse_input_buf' = reuse_input_buf
           /\ reuse_num_frames' = reuse_num_frames
           /\ held' = held]_vars

\* C4 witness: run(n, output=buf, reuse=True) returned buf while an internal
\* reuse pair sized for another request exists.
C4_Witness ==
    /\ IsRun(last) /\ last.output # None /\ last.reuse /\ Returned(last)
    /\ Ident(last.ret) = Ident(last.output)
    /\ reuse_output_buf # None
    /\ reuse_num_frames # last.num_frames

\* C5: a default-mode run(n) returns a new array of n * output_channels
\* samples, distinct from every array still referenced (the caller's and the
\* reuse pair), and leaves the reuse pair alone; a reuse-mode call for the
\* size the pair has returns the pair's output buffer.
C5_FreshDefault ==
    [][/\ (DefaultRun(last') /\ Returned(last'))
            => /\ last'.ret.own = "np"
               /\ last'.ret.id \notin LiveIds
               /\ last'.ret.len = last'.num_frames * output_channels
               /\ Ident(last'.ret) # Ident(reuse_output_buf')
               /\ reuse_output_buf' = reuse_output_buf
               /\ reuse_input_buf' = reuse_input_buf
               /\ reuse_num_frames' = reuse_num_frames
       /\ (/\ ReuseRun(last') /\ Returned(last')
           /\ reuse_output_buf # None
           /\ reuse_num_frames = last'.num_frames)
            => Ident(last'.ret) = Ident(reuse_output_buf)]_vars

\* C5 witness: a default-mode call returned its own array while the reuse
\* pair exists.
C5_Witness ==
    /\ DefaultRun(last) /\ Returned(last)
    /\ last.num_frames > 0
    /\ reuse_output_buf # None
    /\ reuse_num_frames = last.num_frames
    /\ last.ret.id # reuse_output_buf.id

\* The operations that render: run, advance, and the synchronous gets.
GetOps == {"get_int", "get_float", "get_string"}

SetOps == {"set_int", "set_float", "set_string"}

RenderOps == {"run", "advance"} \cup GetOps

\* The call reached the engine's render entry point and came back from it.
Rendered(c) == c.op \in RenderOps /\ c.err.kind \in {"none", "RuntimeError"}

\* C6: engine virtual time changes only inside a render call (run, advance,
\* or the run inside a synchronous get), which advances it by exactly its
\* num_frames; every other operation leaves it unchanged, and it never
\* decreases.
C6_TimeOnlyInRender ==
    [][/\ chuck'.now >= chuck.now
       /\ Rendered(last') => chuck'.now = chuck.now + last'.num_frames
       /\ ~Rendered(last') => chuck'.now = chuck.now]_vars

\* C6 witness: virtual time has reached its bound and the last frames were
\* driven by the run inside a synchronous get.
C6_Witness ==
    /\ last.op = "get_int" /\ Returned(last)
    /\ last.num_frames = 1
    /\ chuck.now = MaxTime

\* C7: no caller callback is invoked outside a render pass: an operation
\* other than run, advance and the synchronous gets invokes no callback and
\* makes no render call; a callback that was invoked was invoked by a call
\* that rendered.
C7_CallbacksOnlyInRender ==
    [][/\ last'.op \notin RenderOps
            => /\ last'.cbs = {}
               /\ last'.runs = <<>>
               /\ \A c \in DOMAIN fired' : fired'[c].vals = <<>>
       /\ (\E c \in DOMAIN fired' : fired'[c].vals # <<>>)
            => /\ Rendered(last')
               /\ Len(last'.runs) = 1]_vars

\* C7 witness: a callback the caller registered was invoked by an advance
\* or a run.
C7_Witness ==
    /\ last.op \in {"run", "advance"}
    /\ \E c \in DOMAIN fired :
          /\ fired[c].owner = "caller"
          /\ fired[c].vals # <<>>
          /\ c \in last.cbs

\* C8: advance(n) leaves the engine as run(n) in default mode would from the
\* same state - same virtual time, same callbacks resolved, same shred
\* table, same error - and returns nothing, touching no reuse buffer.
C8_AdvanceAsRun ==
    [][last'.op = "advance"
        => /\ \E o \in RunOutcomes(chuck, last'.num_frames, None, None, FALSE) :
                /\ chuck' = o.chuck
                /\ last'.err = o.err
                /\ last'.cbs = CalledBack(o.calls)
                /\ fired' = Gc(Deliver(Quiet(fired), o.calls), o.chuck)
                /\ last'.runs[1].n = o.run.n
                /\ last'.runs[1].output.len = o.run.output.len
                /\ last'.runs[1].input.len = o.run.input.len
           /\ last'.ret = None
           /\ reuse_output_buf' = reuse_output_buf
           /\ reuse_input_buf' = reuse_input_buf
           /\ reuse_num_frames' = reuse_num_frames
           /\ held' = held]_vars

\* C8 witness: an advance resolved a pending callback while shreds are live.
C8_Witness ==
    /\ last.op = "advance" /\ Returned(last)
    /\ last.num_frames >= 1
    /\ last.cbs # {}
    /\ chuck.shreds # {}
    /\ chuck.now >= last.num_frames

\* The set requests for scalar t that queue q holds, by position.
PendingSets(q, t) ==
    {i \in 1..Len(q) : q[i].kind = "set" /\ q[i].t = t /\ q[i].name = "x"}

LastPendingSet(q, t) ==
    q[CHOOSE i \in PendingSets(q, t) : \A j \in PendingSets(q, t) : j <= i]

\* C9: for a declared scalar, a synchronous get that returns gives the value
\* of the most recent set: that of the set call just before it, which is
\* that of the latest set request still queued, or,
\* when none is queued, the value the engine holds - which only a set
\* request changes, to the latest one consumed.
C9_GetAfterSet ==
    [][/\ (/\ chuck.declared
           /\ last.op \in SetOps /\ last.name = "x" /\ Returned(last)
           /\ last'.op \in GetOps /\ last'.name = "x" /\ Returned(last')
           /\ last'.t = last.t)
            => last'.val = last.val
       /\ (/\ chuck.declared
           /\ last'.op \in GetOps /\ last'.name = "x" /\ Returned(last'))
            => last'.val = IF PendingSets(chuck.queue, last'.t) # {}
                           THEN LastPendingSet(chuck.queue, last'.t).val
                           ELSE chuck.gval[last'.t]
       /\ \A t \in Types :
            chuck'.gval[t] # chuck.gval[t]
                => /\ PendingSets(chuck.queue, t) # {}
                   /\ chuck'.gval[t] = LastPendingSet(chuck.queue, t).val]_vars

\* C9 witness: a synchronous get returned the value that a set had given
\* to a scalar other than the int one.
C9_Witness ==
    /\ last.op \in GetOps /\ last.name = "x" /\ Returned(last)
    /\ last.ok
    /\ last.t # "int"
    /\ last.val = MaxVal
    /\ chuck.gval[last.t] = MaxVal

\* C10 (as claimed): a synchronous get makes exactly one render call, of
\* run_frames frames, and when its callback was not invoked it fails with
\* an error that names the variable and the run_frames budget.
C10_TimeoutNamesBudget ==
    (last.op \in GetOps /\ last.err # EngineNotReady)
        => /\ Len(last.runs) = 1
           /\ last.runs[1].n = last.num_frames
           /\ ~last.ok => /\ last.err.kind = "RuntimeError"
                          /\ last.err.name = last.name
                          /\ last.err.frames = last.num_frames

\* C11 (as claimed): a synchronous get with run_frames = 0 fails with the
\* callback-timeout error, for any name and any engine state.
C11_ZeroFramesTimeout ==
    (last.op \in GetOps /\ last.num_frames = 0)
        => /\ ~last.ok
           /\ last.err.kind = "RuntimeError"

\* C11 (amended): a synchronous get with run_frames = 0 never returns a
\* value: on an initialized engine it fails with the callback-timeout error
\* naming the variable, whatever the name, the declarations and the queued
\* requests are, and leaves its request queued; before init() it fails
\* with the engine's not-ready error.
C11_ZeroFramesFail ==
    (last.op \in GetOps /\ last.num_frames = 0)
        => /\ ~last.ok
           /\ chuck.init => /\ last.err.kind = "RuntimeError"
                            /\ last.err.name = last.name
                            /\ last.cbs = {}
                            /\ chuck.queue # <<>>
           /\ ~chuck.init => last.err = EngineNotReady

\* C11 witness: the zero-frame get timed out on a declared scalar while a
\* set request for it was queued.
C11_Witness ==
    /\ last.op \in GetOps /\ last.num_frames = 0
    /\ last.name = "x"
    /\ chuck.init /\ chuck.declared
    /\ last.err.kind = "RuntimeError"
    /\ PendingSets(chuck.queue, last.t) # {}

AsyncOps == {"get_int_async", "get_float_async", "get_string_async"}

\* A run() or advance() call that rendered at least one frame.
RenderedBlock(c) == c.op \in {"run", "advance"} /\ Returned(c) /\ c.num_frames >= 1

\* The value scalar t has once queue q is consumed.
ValueAfter(e, q, t) ==
    IF PendingSets(q, t) # {} THEN LastPendingSet(q, t).val ELSE e.gval[t]

\* C12: a callback registered by an asynchronous get for a declared global
\* is invoked, with the global's current value, by the next run() or
\* advance() that renders at least one frame; such a call resolves every
\* get request that was queued and leaves none behind.
C12_AsyncResolved ==
    [][/\ (/\ last.op \in AsyncOps /\ Returned(last) /\ last.name = "x"
           /\ chuck.declared
           /\ RenderedBlock(last'))
            => /\ last.val \in last'.cbs
               /\ last.val \in DOMAIN fired'
               /\ fired'[last.val].vals # <<>>
               /\ fired'[last.val].vals[Len(fired'[last.val].vals)]
                      = ValueAfter(chuck, chuck.queue, last.t)
       /\ (chuck.declared /\ RenderedBlock(last'))
            => /\ \A i \in 1..Len(chuck.queue) :
                    (chuck.queue[i].kind = "get" /\ chuck.queue[i].name = "x")
                        => chuck.queue[i].cb \in last'.cbs
               /\ chuck'.queue = <<>>]_vars

\* C12 witness: an advance invoked the caller's callback with the value a
\* set had given the global.
C12_Witness ==
    /\ last.op = "advance" /\ Returned(last)
    /\ \E c \in last.cbs :
          /\ c \in DOMAIN fired
          /\ fired[c].owner = "caller"
          /\ fired[c].vals = <<MaxVal>>
    /\ chuck.gval["int"] = MaxVal

\* The globals are declared when message j of queue q is handled.
DeclaredAt(e, q, j) ==
    \/ e.declared
    \/ \E sh \in e.shreds : sh.src \in {"decl", "wait"}
    \/ \E i \in 1..(j - 1) : q[i].kind = "spork" /\ q[i].src \in {"decl", "wait"}

\* The registration of callback c when a render pass starts: already in
\* force (at 0) or requested by message `at` of the queue; at -1 when none.
RegOf(e, q, c) ==
    IF \E l \in e.listeners : l.cb = c
    THEN LET l == CHOOSE l \in e.listeners : l.cb = c
         IN [at |-> 0, id |-> l.id, name |-> l.name, forever |-> l.forever]
    ELSE IF \E i \in 1..Len(q) : q[i].kind = "listen" /\ q[i].cb = c
         THEN LET i == CHOOSE i \in 1..Len(q) : q[i].kind = "listen" /\ q[i].cb = c
              IN [at |-> i, id |-> q[i].id, name |-> q[i].name,
                  forever |-> q[i].forever]
         ELSE [at |-> -1, id |-> 0, name |-> "", forever |-> FALSE]

\* Where the queue withdraws registration r (past its end when it does not).
StopAt(q, r) ==
    LET js == {j \in (r.at + 1)..Len(q) :
                  q[j].kind = "unlisten" /\ q[j].id = r.id /\ q[j].name = r.name}
    IN IF js = {} THEN Len(q) + 1 ELSE CHOOSE j \in js : \A k \in js : j <= k

\* The messages that fire registration r's event while r is in force.
Fires(e, q, r) ==
    IF r.at < 0 THEN {}
    ELSE {j \in (r.at + 1)..(StopAt(q, r) - 1) :
             /\ q[j].kind \in {"signal", "broadcast"}
             /\ q[j].name = r.name /\ r.name = "x"
             /\ DeclaredAt(e, q, j)}

\* Each caller callback has at most one registration.
OneRegistration(e, c) ==
    Cardinality({l \in e.listeners : l.cb = c}) +
    Cardinality({i \in 1..Len(e.queue) :
                    e.queue[i].kind = "listen" /\ e.queue[i].cb = c}) <= 1

\* C13: on_event requests a registration with the caller's persistence; over
\* a render pass, a persistent listener's callback is invoked once for every
\* time its event fired, and the registration stays; a single-shot
\* listener's callback is invoked once at its event's first firing, the
\* registration is removed with it, and it is never invoked without a
\* registration.
C13_ListenerCounts ==
    [][/\ (last'.op = "on_event" /\ Returned(last')) =>
            LET m == chuck'.queue[Len(chuck'.queue)]
            IN /\ chuck'.queue = Append(chuck.queue, m)
               /\ m.kind = "listen" /\ m.id = last'.val
               /\ m.name = last'.name /\ m.forever = last'.ok
       /\ RenderedBlock(last') =>
        \A c \in DOMAIN fired :
            (fired[c].owner = "caller" /\ OneRegistration(chuck, c)) =>
                LET r == RegOf(chuck, chuck.queue, c)
                    k == Cardinality(Fires(chuck, chuck.queue, r))
                    still == \E l \in chuck'.listeners : l.cb = c /\ l.id = r.id
                    stopped == StopAt(chuck.queue, r) <= Len(chuck.queue)
                IN /\ c \in DOMAIN fired'
                   /\ r.at >= 0 /\ r.forever
                        => /\ Len(fired'[c].vals) = k
                           /\ ~stopped => still
                   /\ r.at >= 0 /\ ~r.forever
                        => /\ Len(fired'[c].vals) = IF k >= 1 THEN 1 ELSE 0
                           /\ k >= 1 => ~still
                           /\ (k = 0 /\ ~stopped) => still
                   /\ r.at < 0 => fired'[c].vals = <<>>]_vars

\* C13 witness: a persistent listener heard its event twice in one call.
C13_Witness ==
    /\ last.op = "advance" /\ Returned(last)
    /\ \E l \in chuck.listeners :
          /\ l.forever /\ l.name = "x"
          /\ l.cb \in DOMAIN fired
          /\ Len(fired[l.cb].vals) = 2

\* A single-shot listener was invoked and its registration is gone.
C13_WitnessOnce ==
    /\ last.op = "advance" /\ Returned(last)
    /\ \E c \in last.cbs :
          /\ Len(fired[c].vals) = 1
          /\ ~\E l \in chuck.listeners : l.cb = c

\* The queue withdraws listener l.
Withdrawn(q, l) ==
    \E j \in 1..Len(q) : q[j].kind = "unlisten" /\ q[j].id = l.id /\ q[j].name = l.name

\* C14: stop_listening_for_event raises nothing and requests the withdrawal
\* of (name, id); after the render pass that handles it the registration is
\* gone, and a callback is only invoked by a firing that precedes its
\* withdrawal; every listener the queue does not withdraw (the id is
\* unknown or already removed) stays registered.
C14_Unlisten ==
    [][/\ (last'.op = "stop_listening_for_event" /\ chuck.init) =>
            LET m == chuck'.queue[Len(chuck'.queue)]
            IN /\ Returned(last')
               /\ chuck'.queue = Append(chuck.queue, m)
               /\ m.kind = "unlisten" /\ m.name = last'.name /\ m.id = last'.val
               /\ chuck'.listeners = chuck.listeners
       /\ RenderedBlock(last') =>
            /\ \A j \in 1..Len(chuck.queue) :
                  (/\ chuck.queue[j].kind = "unlisten"
                   /\ ~\E i \in (j + 1)..Len(chuck.queue) :
                         /\ chuck.queue[i].kind = "listen"
                         /\ chuck.queue[i].id = chuck.queue[j].id) =>
                      ~\E l \in chuck'.listeners :
                          /\ l.id = chuck.queue[j].id
                          /\ l.name = chuck.queue[j].name
            /\ \A l \in chuck.listeners :
                  (/\ ~Withdrawn(chuck.queue, l)
                   /\ l.forever \/ Fires(chuck, chuck.queue,
                                         RegOf(chuck, chuck.queue, l.cb)) = {})
                      => l \in chuck'.listeners
            /\ \A c \in last'.cbs :
                  (c \in DOMAIN fired /\ fired[c].owner = "caller"
                      /\ OneRegistration(chuck, c))
                      => Fires(chuck, chuck.queue, RegOf(chuck, chuck.queue, c)) # {}]_vars

\* C14 witness: a persistent listener of the declared event is registered,
\* its withdrawal is queued and a signal follows it.
C14_Witness ==
    /\ last.op = "signal_event" /\ Returned(last) /\ last.name = "x"
    /\ chuck.declared
    /\ Len(chuck.queue) = 2
    /\ chuck.queue[1].kind = "unlisten"
    /\ chuck.queue[2].kind = "signal"
    /\ \E l \in chuck.listeners :
          /\ l.forever /\ l.name = "x"
          /\ Withdrawn(chuck.queue, l)

\* The messages of queue q that fire the declared event.
EventFires(e, q) ==
    {j \in 1..Len(q) : /\ q[j].kind \in {"signal", "broadcast"}
                       /\ q[j].name = "x" /\ DeclaredAt(e, q, j)}

\* C15: on_event returns an id greater than zero that no registration, in
\* force or requested, carries; when a render pass handles one broadcast of
\* an event and no other firing of it, the callback of every persistent
\* listener registered on the event is invoked exactly once.
C15_ListenerIds ==
    [][/\ (last'.op = "on_event" /\ Returned(last')) =>
            /\ last'.val > 0
            /\ \A l \in chuck.listeners : l.id # last'.val
            /\ \A i \in 1..Len(chuck.queue) :
                  chuck.queue[i].kind = "listen" => chuck.queue[i].id # last'.val
            /\ \E l \in chuck'.listeners \cup
                        {[id |-> chuck'.queue[i].id, name |-> chuck'.queue[i].name,
                          cb |-> chuck'.queue[i].cb,
                          forever |-> chuck'.queue[i].forever] :
                            i \in {k \in 1..Len(chuck'.queue) :
                                      chuck'.queue[k].kind = "listen"}} :
                  l.id = last'.val /\ l.name = last'.name
       /\ (/\ RenderedBlock(last')
           /\ Cardinality(EventFires(chuck, chuck.queue)) = 1
           /\ \A j \in EventFires(chuck, chuck.queue) :
                 chuck.queue[j].kind = "broadcast") =>
            \A l \in chuck.listeners :
                (l.forever /\ l.name = "x" /\ ~Withdrawn(chuck.queue, l)
                    /\ OneRegistration(chuck, l.cb))
                    => /\ l.cb \in last'.cbs
                       /\ Len(fired'[l.cb].vals) = 1]_vars

\* C15 witness: two persistent listeners of the same event, with distinct
\* positive ids, were each invoked once by one call.
C15_Witness ==
    /\ last.op = "advance" /\ Returned(last)
    /\ \E l1, l2 \in chuck.listeners :
          /\ l1.id > 0 /\ l2.id > 0 /\ l1.id # l2.id
          /\ l1.forever /\ l2.forever
          /\ l1.name = "x" /\ l2.name = "x"
          /\ last.cbs = {l1.cb, l2.cb}
          /\ Len(fired[l1.cb].vals) = 1
          /\ Len(fired[l2.cb].vals) = 1

\* Message j is the only firing of the declared event in queue q, and the
\* shreds waiting on it are those waiting when the call is made: none is
\* still to start and nothing queued ahead of j changes the shred table.
SingleFire(e, q, j) ==
    /\ EventFires(e, q) = {j}
    /\ e.declared
    /\ \A s \in e.shreds : s.st # "new"
    /\ \A i \in 1..(j - 1) : q[i].kind \in {"signal", "broadcast"}

\* The shreds that were waiting before the step and are running after it.
Woken(e, f) ==
    {s.id : s \in {w \in Waiters(e) :
                      \E o \in f.shreds : o.id = w.id /\ o.st = "running"}}

Min(a, b) == IF a <= b THEN a ELSE b

\* C16: signal_event queues a signal and broadcast_event a broadcast; with
\* w shreds waiting on the event, the render pass that handles one signal
\* resumes min(1, w) of them, the one that handles one broadcast resumes all
\* w, and the shreds not resumed keep waiting.
C16_WakeCounts ==
    [][/\ (last'.op \in {"signal_event", "broadcast_event"} /\ Returned(last')) =>
            LET m == chuck'.queue[Len(chuck'.queue)]
            IN /\ chuck'.queue = Append(chuck.queue, m)
               /\ m.name = last'.name
               /\ m.kind = IF last'.op = "signal_event" THEN "signal"
                           ELSE "broadcast"
       /\ RenderedBlock(last') =>
            \A j \in 1..Len(chuck.queue) :
                SingleFire(chuck, chuck.queue, j) =>
                    LET w == Cardinality(Waiters(chuck))
                    IN /\ Cardinality(Woken(chuck, chuck')) =
                              IF chuck.queue[j].kind = "signal" THEN Min(1, w)
                              ELSE w
                       /\ \A s \in Waiters(chuck) :
                              \E o \in chuck'.shreds :
                                  o.id = s.id /\ o.st \in {"waiting", "running"}]_vars

\* C16 witness: of two shreds that waited on the event, one was resumed and
\* the other still waits.
C16_Witness ==
    /\ last.op = "advance" /\ RenderedBlock(last)
    /\ \E s1, s2 \in chuck.shreds :
          /\ s1.src = "wait" /\ s2.src = "wait"
          /\ s1.st = "running" /\ s2.st = "waiting"

\* Two shreds that waited on the event are both running again.
C16_WitnessAll ==
    /\ last.op = "advance" /\ RenderedBlock(last)
    /\ \E s1, s2 \in chuck.shreds :
          /\ s1.id # s2.id
          /\ s1.src = "wait" /\ s2.src = "wait"
          /\ s1.st = "running" /\ s2.st = "running"

\* Message j of queue q names an event that is not declared when the
\* message is handled.
Undeclared(e, q, j) ==
    /\ q[j].kind \in {"signal", "broadcast", "listen"}
    /\ ~(q[j].name = "x" /\ DeclaredAt(e, q, j))

RECURSIVE Declaredonly(_, _, _)
\* Queue q from message j on, without the messages for undeclared names.
Declaredonly(e, q, j) ==
    IF j > Len(q) THEN <<>>
    ELSE (IF Undeclared(e, q, j) THEN <<>> ELSE <<q[j]>>) \o Declaredonly(e, q, j + 1)

\* C17: signal_event, broadcast_event and on_event for any name, declared or
\* not, raise nothing and queue their request; the render pass that handles
\* requests for undeclared names completes, and the shred table, the
\* globals, virtual time, the other registrations and the callbacks invoked
\* are what they would be without those requests.
C17_UndeclaredTolerated ==
    [][/\ (last'.op \in {"signal_event", "broadcast_event", "on_event"} /\ chuck.init)
            => /\ Returned(last')
               /\ Len(chuck'.queue) = Len(chuck.queue) + 1
               /\ chuck'.queue[Len(chuck'.queue)].name = last'.name
               /\ chuck'.shreds = chuck.shreds /\ chuck'.now = chuck.now
               /\ chuck'.listeners = chuck.listeners
       /\ (last'.op = "advance" /\ chuck.init) =>
            LET q == chuck.queue
                mine == {j \in 1..Len(q) : q[j].kind = "listen" /\ Undeclared(chuck, q, j)}
                r == EngineCompute([chuck EXCEPT !.queue = Declaredonly(chuck, q, 1)],
                                   last'.num_frames)
            IN /\ Returned(last')
               /\ chuck'.shreds = r.chuck.shreds
               /\ chuck'.now = r.chuck.now
               /\ chuck'.declared = r.chuck.declared
               /\ chuck'.gval = r.chuck.gval
               /\ chuck'.queue = r.chuck.queue
               /\ {l \in chuck'.listeners : l.id \notin {q[j].id : j \in mine}}
                      = r.chuck.listeners
               /\ last'.cbs \ {q[j].cb : j \in mine}
                      = CalledBack(r.calls) \ {q[j].cb : j \in mine}]_vars

\* C17 witness: a render pass invoked a listener of the declared event while
\* a listener registered for the undeclared name is in force.
C17_Witness ==
    /\ last.op = "advance" /\ RenderedBlock(last)
    /\ chuck.queue = <<>>
    /\ \E l \in chuck.listeners : l.name = "u" /\ l.cb \notin last.cbs
    /\ \E l \in chuck.listeners : l.name = "x" /\ l.cb \in last.cbs

\* The ids of sequence ids, and the queued messages that take shred id out
\* of the table.
Range(ids) == {ids[i] : i \in 1..Len(ids)}

Removes(q, id) ==
    {j \in 1..Len(q) : \/ q[j].kind = "clear"
                       \/ q[j].kind \in {"remove", "replace"} /\ q[j].id = id}

\* C18: a successful compile with count c returns c ids, each greater than
\* zero, pairwise distinct and none of them the id of a shred that is live or
\* queued to start; after the next render pass every returned id whose shred
\* runs on (its source does not end at once, nothing queued removes it) is
\* in the live id list.
C18_CompileIds ==
    [][/\ (last'.op = "compile" /\ last'.ok) =>
            /\ Len(last'.ids) = last'.val
            /\ \A i \in 1..Len(last'.ids) : last'.ids[i] > 0
            /\ Cardinality(Range(last'.ids)) = Len(last'.ids)
            /\ Range(last'.ids) \cap get_all_shred_ids(chuck) = {}
            /\ Range(last'.ids) \cap KnownIds(chuck) = {}
       /\ (last.op = "compile" /\ last.ok /\ RenderedBlock(last')) =>
            \A id \in Range(last.ids) :
                (last.name # "decl" /\ Removes(chuck.queue, id) = {})
                    => id \in get_all_shred_ids(chuck')]_vars

\* C18 witness: a compile returned a new id while a shred compiled before
\* it is live.
C18_Witness ==
    /\ last.op = "compile" /\ last.ok
    /\ Len(last.ids) = last.val
    /\ \E s \in chuck.shreds : s.st = "running" /\ s.id \notin Range(last.ids)

\* A compile of two instances returned two ids, and after the render pass
\* both are live.
C18_WitnessTwo ==
    /\ last.op = "advance" /\ RenderedBlock(last)
    /\ Cardinality(get_all_shred_ids(chuck)) = 2

\* C19: on an initialized engine a compile of source that does not compile
\* raises nothing and returns (False, []), and the engine is as before: the
\* same live ids, the same queue, the same id generator; a compile of valid
\* source, after a failed one as at any other time, succeeds.
C19_CompileFailure ==
    [][/\ (last'.op = "compile" /\ last'.name = "bad" /\ chuck.init) =>
            /\ Returned(last')
            /\ ~last'.ok /\ last'.ids = <<>>
            /\ get_all_shred_ids(chuck') = get_all_shred_ids(chuck)
            /\ chuck' = chuck
       /\ (last'.op = "compile" /\ last'.name # "bad" /\ chuck.init) =>
            /\ Returned(last')
            /\ last'.ok /\ last'.ids # <<>>]_vars

\* C19 witness: a compile failed and returned, with a shred live.
C19_Witness ==
    /\ last.op = "compile" /\ last.name = "bad"
    /\ Returned(last) /\ ~last.ok /\ last.ids = <<>>
    /\ get_all_shred_ids(chuck) # {}

\* Message j of queue q removes an id that names no shred when it is
\* handled: none is live or queued to start under it, or an earlier message
\* has removed it and nothing has started under it since.
Redundant(e, q, j) ==
    /\ q[j].kind = "remove"
    /\ \/ q[j].id \notin KnownIds(e)
       \/ \E i \in 1..(j - 1) :
             /\ q[i].kind = "remove" /\ q[i].id = q[j].id
             /\ \A k \in (i + 1)..(j - 1) :
                   ~(\/ q[k].kind = "spork" /\ q[k].id = q[j].id
                     \/ q[k].kind = "replace" /\ q[k].newid = q[j].id)

RECURSIVE Effective(_, _, _)
\* Queue q from message j on, without the redundant removals.
Effective(e, q, j) ==
    IF j > Len(q) THEN <<>>
    ELSE (IF Redundant(e, q, j) THEN <<>> ELSE <<q[j]>>) \o Effective(e, q, j + 1)

\* C20: on an initialized engine remove_shred raises nothing, whatever the
\* id, and leaves the live ids as they are until the next render pass; that
\* pass ends in the state it would reach without the removals of ids that
\* name no shred (never handed out, finished, or removed by an earlier
\* message), so removing twice is removing once.
C20_RemoveIdempotent ==
    [][/\ (last'.op = "remove_shred" /\ chuck.init) =>
            /\ Returned(last')
            /\ get_all_shred_ids(chuck') = get_all_shred_ids(chuck)
            /\ chuck'.queue = Append(chuck.queue, remove_shred_msg(last'.val))
       /\ (last'.op = "advance" /\ chuck.init) =>
            LET r == EngineCompute([chuck EXCEPT
                                       !.queue = Effective(chuck, chuck.queue, 1)],
                                   last'.num_frames)
            IN /\ Returned(last')
               /\ get_all_shred_ids(chuck') = get_all_shred_ids(r.chuck)
               /\ chuck' = r.chuck]_vars

\* C20 witness: a live shred's removal is queued twice.
C20_Witness ==
    /\ last.op = "remove_shred" /\ Returned(last)
    /\ last.val \in get_all_shred_ids(chuck)
    /\ Len(chuck.queue) = 2
    /\ chuck.queue[1] = remove_shred_msg(last.val)
    /\ chuck.queue[2] = remove_shred_msg(last.val)

\* The removal of an id that was never handed out is queued.
C20_WitnessUnknown ==
    /\ last.op = "remove_shred" /\ Returned(last)
    /\ last.val = MaxShredId + 1
    /\ get_all_shred_ids(chuck) # {}

\* C21: when remove_shred(id) of a live shred is followed by a render pass,
\* id has left the live id list, and every other shred that was live and
\* runs on (its source does not end at once, nothing else queued removes it)
\* is still in the list.
C21_RemoveOne ==
    [][(/\ last.op = "remove_shred" /\ Returned(last)
        /\ last.val \in get_all_shred_ids(chuck)
        /\ RenderedBlock(last'))
        => /\ last.val \notin get_all_shred_ids(chuck')
           /\ \A s \in chuck.shreds :
                 (s.id # last.val /\ s.src # "decl" /\ Removes(chuck.queue, s.id) = {})
                     => s.id \in get_all_shred_ids(chuck')]_vars

\* C21 witness: with two shreds running, the removal of one is queued alone.
C21_Witness ==
    /\ last.op = "remove_shred" /\ Returned(last)
    /\ chuck.queue = <<remove_shred_msg(last.val)>>
    /\ \E s1, s2 \in chuck.shreds :
          /\ s1.id = last.val /\ s2.id # last.val
          /\ s1.st = "running" /\ s2.st = "running"
    /\ chuck.now < MaxTime

\* C22: on an initialized engine replace_shred raises nothing.  It returns
\* a new id greater than zero exactly when the shred is live and the source
\* compiles; the old shred then stays the live one until the render pass
\* that handles the swap, after which the new one is live in its place; at
\* no step are both live, and neither is only when the old shred ended by
\* itself or something else queued removed it.  Otherwise it returns 0 and
\* the engine is as before.
C22_ReplaceAtomic ==
    [][/\ (last'.op = "replace_shred" /\ chuck.init) =>
            LET old == last'.ids[1]
            IN /\ Returned(last')
               /\ last'.val >= 0
               /\ last'.val > 0 <=> (old \in get_all_shred_ids(chuck)
                                        /\ last'.name # "bad")
               /\ last'.val > 0 =>
                    /\ last'.val \notin KnownIds(chuck)
                    /\ get_all_shred_ids(chuck') = get_all_shred_ids(chuck)
                    /\ chuck'.queue[Len(chuck'.queue)].kind = "replace"
                    /\ chuck'.queue[Len(chuck'.queue)].id = old
                    /\ chuck'.queue[Len(chuck'.queue)].newid = last'.val
               /\ last'.val = 0 => chuck' = chuck
       /\ RenderedBlock(last') =>
            \A j \in 1..Len(chuck.queue) :
                chuck.queue[j].kind = "replace" =>
                    LET old == chuck.queue[j].id
                        new == chuck.queue[j].newid
                        live == get_all_shred_ids(chuck')
                    IN /\ ~(old \in live /\ new \in live)
                       /\ (/\ \E s \in chuck.shreds : s.id = old /\ s.src # "decl"
                           /\ \A i \in Removes(chuck.queue, old) : i >= j
                           /\ \A i \in Removes(chuck.queue, new) : i < j)
                            => (new \in live /\ old \notin live)]_vars

\* C22 witness: the swap of a running shred is queued and its new id returned.
C22_Witness ==
    /\ last.op = "replace_shred" /\ Returned(last)
    /\ last.val > 0
    /\ \E s \in chuck.shreds : s.id = last.ids[1] /\ s.st = "running"
    /\ last.val \notin get_all_shred_ids(chuck)

\* A replace of a live shred by source that does not compile returned 0.
C22_WitnessFailed ==
    /\ last.op = "replace_shred" /\ Returned(last)
    /\ last.val = 0 /\ last.name = "bad"
    /\ last.ids[1] \in get_all_shred_ids(chuck)

\* C23: when clear() is followed by a render pass of at least one frame, the
\* live id list is empty afterwards, however many shreds were live or queued
\* to start; in any render pass, no shred that was live or queued ahead of a
\* clear outlives it.
C23_ClearAll ==
    [][/\ (last.op = "clear" /\ Returned(last) /\ RenderedBlock(last'))
            => get_all_shred_ids(chuck') = {}
       /\ RenderedBlock(last') =>
            \A j \in 1..Len(chuck.queue) :
                chuck.queue[j].kind = "clear" =>
                    get_all_shred_ids(chuck') \subseteq
                        {chuck.queue[i].id : i \in {k \in (j + 1)..Len(chuck.queue) :
                                                      chuck.queue[k].kind = "spork"}}]_vars

\* C23 witness: clear() is queued while two shreds are live.
C23_Witness ==
    /\ last.op = "clear" /\ Returned(last)
    /\ Cardinality(get_all_shred_ids(chuck)) = 2
    /\ chuck.queue[Len(chuck.queue)].kind = "clear"
    /\ chuck.now < MaxTime

\* C24: on an initialized engine reset_id changes the id generator and
\* nothing else: the shred table with every entry, the queue, the globals,
\* the listeners and virtual time are as before; when no shred is live or
\* queued the generator starts over, so the next successful compile returns
\* ids from 1 on.
C24_ResetGenerator ==
    [][/\ (last'.op = "reset_id" /\ chuck.init) =>
            /\ Returned(last')
            /\ chuck' = [chuck EXCEPT !.next_id = chuck'.next_id]
            /\ get_all_shred_ids(chuck') = get_all_shred_ids(chuck)
            /\ chuck'.now = chuck.now
            /\ chuck'.next_id <= chuck.next_id
            /\ KnownIds(chuck) = {} => chuck'.next_id = 1
       /\ (/\ last.op = "reset_id" /\ Returned(last) /\ KnownIds(chuck) = {}
           /\ last'.op = "compile" /\ last'.ok)
            => last'.ids = [i \in 1..last'.val |-> i]]_vars

\* C24 witness: after an earlier shred had run and ended, a compile returned
\* id 1 again.
C24_Witness ==
    /\ last.op = "compile" /\ last.ok /\ last.name = "osc"
    /\ last.ids[1] = 1
    /\ chuck.declared
    /\ chuck.now >= 1

\* The ids under which queued messages will start a shred, by position.
QueuedIds(q) ==
    [j \in {k \in 1..Len(q) : q[k].kind \in {"spork", "replace"}} |->
        IF q[j].kind = "spork" THEN q[j].id ELSE q[j].newid]

\* The shred table holds one entry per id, every id is positive, and the ids
\* queued to start are new and pairwise distinct.
DistinctIds ==
    /\ \A s \in chuck.shreds : s.id > 0
    /\ \A s1, s2 \in chuck.shreds : s1.id = s2.id => s1 = s2
    /\ \A j \in DOMAIN QueuedIds(chuck.queue) :
          /\ QueuedIds(chuck.queue)[j] > 0
          /\ QueuedIds(chuck.queue)[j] \notin get_all_shred_ids(chuck)
          /\ \A k \in DOMAIN QueuedIds(chuck.queue) :
                QueuedIds(chuck.queue)[j] = QueuedIds(chuck.queue)[k] => j = k

\* What compile and replace_shred return is the id of no live shred.
FreshIds ==
    /\ (last'.op = "compile" /\ last'.ok)
          => Range(last'.ids) \cap get_all_shred_ids(chuck) = {}
    /\ (last'.op = "replace_shred" /\ Returned(last') /\ last'.val # 0)
          => last'.val \notin get_all_shred_ids(chuck)
    /\ (last'.op = "reset_id" /\ Returned(last'))
          => \A id \in KnownIds(chuck) : chuck'.next_id > id

\* C25: in every reachable state the live shreds have pairwise distinct
\* positive ids, and no compile or replace_shred returns the id of a shred
\* that is live, also after reset_id was called with shreds live.
C25_DistinctLiveIds == [][DistinctIds /\ DistinctIds' /\ FreshIds]_vars

\* C25 witness: reset_id was called with a shred live and the generator,
\* which had gone further, restarts just above that shred's id.
C25_Witness ==
    /\ last.op = "reset_id" /\ Returned(last)
    /\ chuck.shreds = {[id |-> 1, src |-> "osc", st |-> "running"]}
    /\ chuck.queue = <<>>
    /\ chuck.declared
    /\ chuck.next_id = 2

\* ------------------------------------------------------- configuration
\* The values a caller passes for each integer option: inside and outside
\* its domain.
OptionValues ==
    [sample_rate |-> {-1, 0, 44100, 48000},
     input_channels |-> {-1, 0, 1, 2},
     output_channels |-> {-1, 0, 1, 2},
     deprecate_level |-> {-1, 0, 1, 2, 3},
     otf_port |-> {8888, 9999},
     tty_width_hint |-> {80, 120}]

Flags ==
    {"chugin_enable", "vm_adaptive", "vm_halt", "auto_depend",
     "dump_instructions", "otf_enable", "tty_color"}

OptionChoices ==
    UNION {{<<f, v>> : v \in OptionValues[f]} : f \in DOMAIN OptionValues}

\* The argument lists tried: up to two integer options and one flag differ
\* from their defaults.
Configs ==
    {[DefaultConfig EXCEPT ![a[1]] = a[2], ![b[1]] = b[2], ![flag] = value] :
        a \in OptionChoices, b \in OptionChoices, flag \in Flags,
        value \in BOOLEAN}

\* The domain of each constructor argument.
ValidConfig(config) == ValidParams(Stage(NewChucK, config).param)

\* What the caller reads through the option properties.
Properties ==
    [sample_rate |-> sample_rate, input_channels |-> input_channels,
     output_channels |-> output_channels, chugin_enable |-> chugin_enable,
     vm_adaptive |-> vm_adaptive, vm_halt |-> vm_halt,
     auto_depend |-> auto_depend, deprecate_level |-> deprecate_level,
     dump_instructions |-> dump_instructions, otf_enable |-> otf_enable,
     otf_port |-> otf_port, tty_color |-> tty_color,
     tty_width_hint |-> tty_width_hint]

\* Chuck(**config, auto_init=auto_init) as the caller sees it: the engine's
\* init() result is not looked at, so the call raises only if init() raises.
Constructed(c, l, config, auto_init) ==
    /\ c = Construct(config, auto_init)
    /\ \E report \in (IF auto_init THEN InitReports(Stage(NewChucK, config))
                                    ELSE {"none"}) :
          l = [NoCall EXCEPT !.op = "__init__", !.config = config,
                             !.ok = auto_init,
                             !.err = IF report = "raise" THEN ConfigError
                                     ELSE NoErr]

InitConfig ==
    /\ pkg \in Packages
    /\ \E config \in Configs, auto_init \in BOOLEAN :
          Constructed(chuck, last, config, auto_init)
    /\ reuse_input_buf = None
    /\ reuse_output_buf = None
    /\ reuse_num_frames = 0
    /\ held = << >>
    /\ fired = NoClosures
    /\ NoLog

\* The constructor returned an instance.
HasInstance == ~(last.op = "__init__" /\ last.err # NoErr)

ConfigInit == HasInstance /\ init

\* The caller reads every option property.
ConfigRead ==
    /\ HasInstance
    /\ last' = [NoCall EXCEPT !.op = "properties", !.config = Properties]
    /\ fired' = Quiet(fired)
    /\ UNCHANGED <<tui, pkg, chuck, reuse_input_buf, reuse_output_buf,
                   reuse_num_frames, held>>

\* The caller corrects a staged value through the low-level instance.
ConfigStage ==
    /\ HasInstance
    /\ ~chuck.init
    /\ \E key \in {"SAMPLE_RATE", "INPUT_CHANNELS", "OUTPUT_CHANNELS",
                    "DEPRECATE_LEVEL"} :
          raw_set_param(key, DefaultParams[key])

ConfigRun == HasInstance /\ run(1, None, None, FALSE)

NextConfig == ConfigInit \/ ConfigRead \/ ConfigStage \/ ConfigRun

SpecConfig == InitConfig /\ [][NextConfig]_vars

C26_WitnessManual ==
    /\ last.op = "init"
    /\ last.ok
    /\ Properties.deprecate_level = 2
    /\ Properties.vm_halt

\* C27: a value outside its domain is reported, when it is staged or as an
\* initialization failure: a constructor call with auto_init whose staged
\* options make init() fail does not return an instance as if it had
\* succeeded.
C27_InitFailureReported ==
    (/\ last.op = "__init__"
     /\ last.ok
     /\ ~ValidConfig(last.config))
    => last.err # NoErr

\* C28: a render, lifecycle or bridge call on an instance whose init() has
\* not succeeded fails with EngineNotReady and changes no state: neither the
\* engine nor the wrapper's reuse slots.
C28_NotReadyNoChange ==
    [][(/\ ~chuck.init
        /\ last'.op \notin {"init", "set_param", "properties"})
       => /\ last'.err = EngineNotReady
          /\ UNCHANGED <<chuck, reuse_input_buf, reuse_output_buf,
                         reuse_num_frames>>]_vars

\* --------------------------------------------------- caller's buffers
\* The lengths of the arrays a caller passes: the promised length for some
\* frame count and channel count, or any other.
BufferLens == 0..(MaxFrames * MaxChan)

\* Effect mode: chuck.run(n, output=out_buf, input=in_buf).
BuffersRun ==
    \E n \in FrameVals, olen \in BufferLens, ilen \in BufferLens :
        run(n, CallerBuf(1, olen, TRUE), CallerBuf(2, ilen, FALSE), FALSE)

NextBuffers == BuffersRun \/ AdvanceCall

SpecBuffers == InitRender /\ [][NextBuffers]_vars

\* C29: run(n, output=buf, input=ibuf) with a caller buffer whose length is
\* not n times the channel count fails with InvalidArgument before the
\* engine's run is invoked: the engine is handed no buffer by that call, and
\* virtual time does not advance.
C29_MismatchRejected ==
    [][(/\ chuck.init
        /\ last'.op = "run"
        /\ \/ /\ last'.output # None
              /\ last'.output.len # last'.num_frames * output_channels
           \/ /\ last'.input # None
              /\ last'.input.len # last'.num_frames * input_channels)
       => /\ last'.err = InvalidArgument
          /\ last'.runs = <<>>
          /\ chuck'.now = chuck.now]_vars

\* ----------------------------------------------------- real-time audio
\* The engine streams audio on its own thread while the control thread keeps
\* using the bridge; shreds are compiled before the audio starts.
StartAudio ==
    /\ chuck.init
    /\ ~chuck.audio
    /\ chuck' = start_audio(chuck)
    /\ last' = Call("start_audio")
    /\ fired' = Quiet(fired)
    /\ WrapperUnchanged

StopAudio ==
    /\ chuck.audio
    /\ chuck' = stop_audio(chuck)
    /\ last' = Call("stop_audio")
    /\ fired' = Quiet(fired)
    /\ WrapperUnchanged

\* One block rendered by the real-time thread.
AudioCallback ==
    /\ chuck.audio
    /\ chuck.now < MaxTime
    /\ LET r == EngineCompute(chuck, 1)
       IN /\ chuck' = r.chuck
          /\ fired' = Gc(Deliver(Quiet(fired), r.calls), r.chuck)
          /\ last' = [Call("audio_callback") EXCEPT !.cbs = CalledBack(r.calls)]
    /\ WrapperUnchanged

RealtimeCompile == ~chuck.audio /\ compile("decl", 1, TRUE)

RealtimeSet == set_int("x", MaxVal) /\ Pending(MaxPending)

RealtimeGet == get_int("x", 1) /\ Pending(MaxPending)

RealtimeEvent ==
    /\ \/ signal_event("x")
       \/ broadcast_event("x")
       \/ \E cb \in BridgeCallbacks : on_event("x", cb, TRUE)
       \/ stop_listening_for_event("x", 1)
    /\ Pending(MaxPending)

NextRealtime ==
    \/ StartAudio \/ StopAudio \/ AudioCallback
    \/ RealtimeCompile \/ RealtimeSet \/ RealtimeGet \/ RealtimeEvent

SpecRealtime == InitBridge /\ [][NextRealtime]_vars

\* C30: while the real-time thread is active, setting or getting a scalar,
\* signalling, broadcasting, listening and unlistening only enqueue a control
\* message: none of these calls makes the control thread drive the engine's
\* run, so no second render pass overlaps the real-time thread's.
C30_BridgeOnlyEnqueues ==
    [][(/\ chuck.audio
        /\ last'.op \in {"set_int", "get_int", "signal_event", "broadcast_event",
                         "on_event", "stop_listening_for_event"})
       => last'.runs = <<>>]_vars

\* ------------------------------- lifecycle calls during real-time audio
\* The control thread keeps compiling, removing, replacing and clearing
\* while the real-time thread renders block after block.
UnsafeStop == chuck.block = <<>> /\ StopAudio

BlockBegin ==
    /\ chuck.audio
    /\ chuck.block = <<>>
    /\ chuck.now < MaxTime
    /\ chuck' = begin_block(chuck)
    /\ last' = Call("block_begin")
    /\ fired' = Quiet(fired)
    /\ WrapperUnchanged

BlockEnd ==
    /\ chuck.block # <<>>
    /\ \E r \in end_block(chuck) :
          /\ chuck' = r.chuck
          /\ fired' = Gc(Deliver(Quiet(fired), r.calls), r.chuck)
          /\ last' = [Call("block_end") EXCEPT !.err = r.err,
                                               !.cbs = CalledBack(r.calls)]
    /\ WrapperUnchanged

UnsafeCompile ==
    /\ \E code \in {"osc", "bad"}, immediate \in BOOLEAN :
          compile(code, 1, immediate)
    /\ Pending(MaxPending)

UnsafeRemove == (\E id \in 1..MaxShredId : remove_shred(id)) /\ Pending(MaxPending)

UnsafeReplace ==
    /\ \E id \in 1..MaxShredId, code \in {"osc", "bad"} : replace_shred(id, code)
    /\ Pending(MaxPending)

UnsafeClear == clear /\ Pending(MaxPending)

NextUnsafe ==
    \/ StartAudio \/ UnsafeStop \/ BlockBegin \/ BlockEnd
    \/ UnsafeCompile \/ UnsafeRemove \/ UnsafeReplace \/ UnsafeClear

SpecUnsafe == InitBridge /\ [][NextUnsafe]_vars

\* C31: nothing checks the thread-safety precondition.  While the real-time
\* thread is active, compile, remove_shred, replace_shred and clear are not
\* rejected and not held back: each reaches the engine in the same step with
\* the effect it has when the audio is stopped, also in the middle of a block
\* of the real-time thread; the real-time thread is in a block only while the
\* audio is started.
C31_NoSafetyCheck ==
    [][/\ chuck'.block # <<>> => chuck'.audio
       /\ (/\ chuck.audio
           /\ last'.op \in {"compile", "remove_shred", "replace_shred", "clear"})
          => /\ last'.err = NoErr
             /\ chuck'.block = chuck.block
             /\ last'.op = "compile" =>
                   \E immediate \in BOOLEAN :
                      LET r == compile_code(chuck, last'.name, last'.val, immediate)
                      IN chuck' = r.chuck /\ last'.ok = r.ok /\ last'.ids = r.ids
             /\ last'.op = "remove_shred" =>
                   chuck' = Enqueue(chuck, remove_shred_msg(last'.val))
             /\ last'.op = "replace_shred" =>
                   LET r == replace_shred_result(chuck, last'.ids[1], last'.name)
                   IN chuck' = r.chuck /\ last'.val = r.id
             /\ last'.op = "clear" =>
                   chuck' = Enqueue(chuck, event_msg("clear", ""))]_vars

\* compile changed the shred table in the middle of a block.
C31_Witness ==
    /\ chuck.audio
    /\ chuck.block # <<>>
    /\ last.op = "compile"
    /\ last.ok
    /\ chuck.block[1] # chuck.shreds

\* A replace_shred went through in the middle of a block.
C31_WitnessReplace ==
    /\ chuck.block # <<>>
    /\ last.op = "replace_shred"
    /\ last.val > 0

\* ------------------------------------------- callbacks that call run
\* Chuck.run taken in its two parts, so that what a callback does while the
\* engine is inside run() can be told apart: the buffers are chosen and handed
\* to the engine (running holds the calls of the engine's run that have not
\* returned yet, innermost last), and later that call returns.
MaxDepth == 2

InFlight(e) ==
    LET add[i \in 0..Len(e.running)] ==
            IF i = 0 THEN 0 ELSE add[i - 1] + e.running[i].n
    IN add[Len(e.running)]

\* Chuck.run up to self._chuck.run(input_buf, output_buf, num_frames).
run_enter(e, num_frames, reuse) ==
    /\ pkg = "numchuck"
    /\ e.init
    /\ Len(e.running) < MaxDepth
    /\ e.now + InFlight(e) + num_frames <= MaxTime
    /\ LET b == RunBuffers(num_frames, None, None, reuse)
           call == EngineCall(b.input_buf, b.output_buf, num_frames)
       IN /\ chuck' = [e EXCEPT !.running = Append(@, call)]
          /\ reuse_output_buf' = b.reuse_output_buf
          /\ reuse_input_buf' = b.reuse_input_buf
          /\ reuse_num_frames' = b.reuse_num_frames
          /\ last' = [Call("run") EXCEPT !.num_frames = num_frames,
                                         !.reuse = reuse, !.runs = <<call>>]
    /\ UNCHANGED <<tui, pkg, held>>

\* The control thread calls run(n, reuse=True).
RunEnter ==
    /\ chuck.running = <<>>
    /\ fired' = Quiet(fired)
    /\ \E n \in FrameVals : run_enter(chuck, n, TRUE)

\* Inside a render pass the engine resolves the oldest request and invokes
\* its callback, and the callback calls run(n, reuse=True) on the instance.
CallbackRun ==
    /\ chuck.running # <<>>
    /\ chuck.running[Len(chuck.running)].n > 0
    /\ chuck.queue # <<>>
    /\ LET r == ProcessMsg(ExecShreds([chuck EXCEPT !.queue = Tail(chuck.queue)]),
                           Head(chuck.queue))
       IN /\ r.calls # <<>>
          /\ fired' = Deliver(Quiet(fired), r.calls)
          /\ \E n \in FrameVals : run_enter(r.chuck, n, TRUE)

\* self._chuck.run(...) returns and run() returns output_buf.  A call of the
\* engine's run made from inside another one is outside what the engine
\* defines: it renders, or it breaks.
RunReturn ==
    /\ chuck.running # <<>>
    /\ LET call == chuck.running[Len(chuck.running)]
           outer == [chuck EXCEPT !.running = SubSeq(@, 1, Len(@) - 1)]
       IN \E r \in chuck_run(outer, call.input, call.output, call.n) \cup
                   (IF outer.running # <<>>
                    THEN {[chuck |-> outer, err |-> RaceCondition, calls |-> <<>>,
                           wrote |-> FALSE]}
                    ELSE {}) :
             /\ chuck' = r.chuck
             /\ fired' = Gc(Deliver(Quiet(fired), r.calls), r.chuck)
             /\ reuse_output_buf' =
                   IF Ident(reuse_output_buf) = Ident(call.output)
                   THEN Written(reuse_output_buf, r.wrote) ELSE reuse_output_buf
             /\ held' = IF r.err = NoErr /\ call.output.own = "np"
                        THEN Keep(held, call.output.id) ELSE held
             /\ last' = [Call("run") EXCEPT
                           !.num_frames = call.n, !.reuse = TRUE,
                           !.ret = IF r.err = NoErr
                                   THEN Written(call.output, r.wrote) ELSE None,
                           !.err = r.err, !.runs = <<call>>,
                           !.cbs = CalledBack(r.calls)]
    /\ UNCHANGED <<tui, pkg, reuse_input_buf, reuse_num_frames>>

ReentrantCompile == chuck.running = <<>> /\ compile("decl", 1, TRUE)

ReentrantAsync ==
    /\ chuck.running = <<>>
    /\ \E cb \in BridgeCallbacks : get_int_async("x", cb)
    /\ Pending(MaxPending)

NextReentrant ==
    RunEnter \/ CallbackRun \/ RunReturn \/ ReentrantCompile \/ ReentrantAsync

SpecReentrant == InitBridge /\ [][NextReentrant]_vars

\* C32: at most one render call is in progress at any time, and no buffer of
\* the reuse pair is in use by two render calls at once, also when a callback
\* the engine fires during a render pass calls run on the same instance.
C32_OneRenderAtATime ==
    /\ Len(chuck.running) <= 1
    /\ \A i, j \in 1..Len(chuck.running) :
          i # j => Ident(chuck.running[i].output) # Ident(chuck.running[j].output)

\* ------------------------------------------- the options after init()
\* Instances constructed with auto_init, with the defaults and with other
\* values, on which every kind of operation is then called.
SettledConfigs ==
    {DefaultConfig,
     [DefaultConfig EXCEPT !.sample_rate = 48000, !.input_channels = 1,
                           !.output_channels = 1, !.chugin_enable = FALSE,
                           !.auto_depend = TRUE, !.deprecate_level = 2,
                           !.otf_port = 9999, !.tty_color = TRUE,
                           !.tty_width_hint = 120],
     [DefaultConfig EXCEPT !.input_channels = 0, !.vm_adaptive = TRUE,
                           !.vm_halt = TRUE, !.deprecate_level = 0,
                           !.dump_instructions = TRUE, !.otf_enable = TRUE]}

InitSettled ==
    /\ pkg = "numchuck"
    /\ \E config \in SettledConfigs : Constructed(chuck, last, config, TRUE)
    /\ reuse_input_buf = None
    /\ reuse_output_buf = None
    /\ reuse_num_frames = 0
    /\ held = << >>
    /\ fired = NoClosures
    /\ NoLog

SettledRender ==
    \/ \E reuse \in BOOLEAN : run(1, None, None, reuse)
    \/ advance(1)

SettledShreds ==
    /\ \/ \E immediate \in BOOLEAN : compile("decl", 1, immediate)
       \/ remove_shred(1)
       \/ replace_shred(1, "osc")
       \/ clear
       \/ reset_id
    /\ Pending(MaxPending)

SettledBridge ==
    /\ \/ set_int("x", MaxVal)
       \/ get_int("x", 1)
       \/ \E cb \in BridgeCallbacks : get_int_async("x", cb)
       \/ signal_event("x")
       \/ broadcast_event("x")
       \/ \E cb \in BridgeCallbacks : on_event("x", cb, TRUE)
       \/ stop_listening_for_event("x", 1)
    /\ Pending(MaxPending)

NextSettled == SettledRender \/ SettledShreds \/ SettledBridge \/ ConfigRead

SpecSettled == InitSettled /\ [][NextSettled]_vars

\* C33: once init() has succeeded, the options read through the wrapper stay
\* what they were right after init, whatever compile, run, advance, remove,
\* replace, clear, reset_id, scalar and event operations are called.
C33_ConfigConstant ==
    [][chuck.init
       => /\ chuck'.init
          /\ Properties' = Properties
          /\ Properties \in SettledConfigs
          /\ last'.op = "properties" => last'.config = Properties]_vars

\* Options other than the defaults are read after shreds were compiled,
\* time has advanced and a scalar was read.
C33_Witness ==
    /\ last.op = "properties"
    /\ last.config.sample_rate = 48000
    /\ last.config.tty_color
    /\ chuck.now > 1
    /\ chuck.next_id > 1
    /\ chuck.declared

\* ------------------------------------------------------- the reuse slot
\* Reuse-mode calls of changing size by a caller that keeps every array it
\* was given.
MaxHeld == 3

SlotRun ==
    /\ Len(held) < MaxHeld
    /\ \E n \in FrameVals : run_held(n, None, None, TRUE, TRUE)

NextSlot == SlotRun \/ AdvanceCall

SpecSlot == InitRender /\ [][NextSlot]_vars

\* C34: the reuse cache is one slot replaced as a whole.  A reuse-mode call
\* without a caller output buffer whose frame count differs from the tag (or
\* that finds the slot empty) replaces the output and the input buffer by two
\* new objects, distinct from every array still referenced, sized for the
\* new frame count, and sets the tag, all in that call; a call of the tagged
\* size leaves both and the tag alone.  The array returned is the slot's
\* output buffer, so reuse-mode calls of sizes a, b, a return three pairwise
\* distinct objects.
C34_SlotReplaced ==
    [][(last'.op = "run" /\ last'.reuse /\ last'.output = None)
       => /\ IF reuse_num_frames # last'.num_frames \/ reuse_output_buf = None
             THEN /\ reuse_output_buf'.own = "np"
                  /\ reuse_input_buf'.own = "np"
                  /\ reuse_output_buf'.id \notin LiveIds
                  /\ reuse_input_buf'.id \notin LiveIds
                  /\ reuse_output_buf'.id # reuse_input_buf'.id
                  /\ reuse_output_buf'.len = last'.num_frames * output_channels
                  /\ reuse_input_buf'.len = last'.num_frames * input_channels
                  /\ reuse_num_frames' = last'.num_frames
             ELSE /\ Ident(reuse_output_buf') = Ident(reuse_output_buf)
                  /\ reuse_input_buf' = reuse_input_buf
                  /\ reuse_num_frames' = reuse_num_frames
          /\ last'.err = NoErr =>
                /\ Ident(last'.ret) = Ident(reuse_output_buf')
                /\ held' = Append(held, reuse_output_buf'.id)]_vars

\* Three reuse-mode calls of sizes a, b, a have returned three arrays, which
\* the caller still holds and which are pairwise distinct.
C34_Witness ==
    /\ Len(held) = 3
    /\ Cardinality({held[i] : i \in 1..3}) = 3
    /\ last.op = "run"
    /\ last.reuse
    /\ last.num_frames = 0
    /\ chuck.now = 1
    /\ reuse_output_buf.id = held[3]
    /\ reuse_input_buf.id \notin {held[i] : i \in 1..3}

\* ------------------------------------------- one-shot get registrations
\* Scalar reads only, asynchronous and synchronous, with render passes of
\* zero and of one frame in between; no event listeners are registered, so
\* every invocation of a callback comes from a get request.
OneShotCompile == compile("decl", 1, TRUE)

OneShotAsync ==
    /\ \E name \in Names, cb \in CallerCallbacks : get_int_async(name, cb)
    /\ Pending(MaxPendingScalar)

OneShotGet ==
    /\ \E name \in Names, n \in 0..1 : get_int(name, n)
    /\ Pending(MaxPendingScalar)

OneShotRender == \E n \in 0..1 : run(n, None, None, FALSE) \/ advance(n)

NextOneShot == OneShotCompile \/ OneShotAsync \/ OneShotGet \/ OneShotRender

SpecOneShot == InitBridge /\ [][NextOneShot]_vars

\* The get requests for callback c the engine still holds.
PendingGets(e, c) ==
    Cardinality({i \in 1..Len(e.queue) :
                    e.queue[i].kind = "get" /\ e.queue[i].cb = c})

\* The registrations the call that ends in c2 made for callback c: one by an
\* asynchronous get that was passed c, one by a synchronous get for the callback
\* it made itself.
Registered(c1, f, c2, c) ==
    IF c2.err = EngineNotReady THEN 0
    ELSE IF c2.op \in AsyncOps /\ c2.val = c THEN 1
    ELSE IF c2.op \in {"get_int", "get_float", "get_string"} /\ c = FreshId(DOMAIN f)
    THEN 1 ELSE 0

\* C35: a get registration is used up by the one invocation it causes.  In
\* every step, for every callback, the invocations made in the step plus the
\* registrations still held by the engine are at most the registrations held
\* before plus the one the step made: k registrations yield at most k
\* invocations over all later render passes, and a registration that was
\* resolved is gone.  A synchronous get whose own callback was invoked leaves
\* no request for it behind.
C35_OneShot ==
    [][/\ \A c \in DOMAIN fired' :
             Len(fired'[c].vals) + PendingGets(chuck', c)
                <= PendingGets(chuck, c) + Registered(last, fired, last', c)
       /\ last'.cbs \subseteq
             {c \in 1..(MaxCb + 1) :
                 PendingGets(chuck, c) + Registered(last, fired, last', c) > 0}
       /\ \A c \in last'.cbs : c \notin DOMAIN fired' => PendingGets(chuck', c) = 0]_vars

\* Two registrations of one callback were resolved by one render pass: the
\* callback was invoked twice and no request is left.
C35_Witness ==
    /\ last.op \in {"run", "advance"}
    /\ \E c \in DOMAIN fired :
          /\ fired[c].owner = "caller"
          /\ Len(fired[c].vals) = 2
    /\ chuck.queue = <<>>

\* C36: a synchronous get returns only what was delivered to the callback it
\* registered itself.  That callback is new (no request the engine holds names
\* it); the call returns exactly when that callback was invoked, whatever
\* other callbacks - those of earlier gets that timed out - the same render
\* pass invoked; and for a declared scalar the value returned is the one the
\* engine held when it came to the call's own request, after every request
\* queued before it.  Otherwise the call times out.
C36_OwnResult ==
    [][(last'.op \in GetOps /\ last'.err # EngineNotReady)
       => LET cb == FreshId(DOMAIN fired)
          IN /\ cb \notin DOMAIN fired
             /\ PendingGets(chuck, cb) = 0
             /\ last'.ok <=> cb \in last'.cbs
             /\ (last'.ok /\ chuck.declared)
                   => last'.val = ValueAfter(chuck, chuck.queue, last'.t)
             /\ ~last'.ok => /\ last'.err.kind = "RuntimeError"
                             /\ last'.err.name = last'.name
             /\ last'.ok => /\ last'.err = NoErr
                            /\ PendingGets(chuck', cb) = 0]_vars

\* A get returned the value of a set queued after the request of an earlier
\* get that had timed out: the pass invoked both callbacks.
C36_Witness ==
    /\ last.op \in GetOps
    /\ last.ok
    /\ Cardinality(last.cbs) = 2
    /\ last.val = MaxVal
    /\ chuck.gval[last.t] = MaxVal

\* A get for an undeclared name timed out in a pass that answered the
\* request of an earlier get.
C36_WitnessLate ==
    /\ last.op \in GetOps
    /\ ~last.ok
    /\ last.name = "u"
    /\ last.num_frames >= 1
    /\ last.cbs # {}

\* Reuse-mode rendering with reads of a global and advance() in between.
KeepCompile ==
    /\ compile("decl", 1, TRUE) \/ compile("osc", 1, TRUE)
    /\ Pending(MaxPending)

KeepGet ==
    /\ \E name \in Names, n \in FrameVals :
          get_int(name, n) \/ get_float(name, n) \/ get_string(name, n)
    /\ Pending(MaxPending)

NextKeep == RunReuse \/ AdvanceCall \/ KeepCompile \/ KeepGet

SpecKeep == InitRender /\ [][NextKeep]_vars

\* The buffers of the reuse pair that exist.
ReusePair == {Ident(b) : b \in {reuse_output_buf, reuse_input_buf} \ {None}}

\* C37: get_int, get_float, get_string and advance leave the reuse pair and
\* its tag as they are - same objects, same contents - and hand the engine
\* only buffers that are neither of the pair nor held by the caller; so the
\* array a reuse-mode run returned is intact after them, and the next
\* reuse-mode run of the tagged size returns that same object.
C37_ReuseUntouched ==
    [][/\ (last'.op \in GetOps \cup {"advance"})
          => /\ reuse_output_buf' = reuse_output_buf
             /\ reuse_input_buf' = reuse_input_buf
             /\ reuse_num_frames' = reuse_num_frames
             /\ held' = held
             /\ \A i \in 1..Len(last'.runs) :
                   /\ Ident(last'.runs[i].output) \notin ReusePair
                   /\ Ident(last'.runs[i].input) \notin ReusePair
                   /\ last'.runs[i].output.own = "np"
                   /\ last'.runs[i].output.id \notin LiveIds
                   /\ last'.runs[i].input.id \notin LiveIds
       /\ (/\ last.op \in GetOps \cup {"advance"}
           /\ ReuseRun(last')
           /\ last'.err = NoErr
           /\ reuse_output_buf # None
           /\ last'.num_frames = reuse_num_frames)
          => /\ Ident(last'.ret) = Ident(reuse_output_buf)
             /\ Ident(reuse_output_buf') = Ident(reuse_output_buf)
             /\ reuse_input_buf' = reuse_input_buf
             /\ held = <<reuse_output_buf.id>> => held' = held]_vars

\* A get that was answered by a pass of one frame, while the caller holds
\* the array of audio an earlier reuse-mode run of one frame returned: the
\* array is still the slot's, with its audio.
C37_Witness ==
    /\ last.op \in GetOps
    /\ last.ok
    /\ last.num_frames = 1
    /\ reuse_output_buf # None
    /\ reuse_num_frames = 1
    /\ ~reuse_output_buf.zero
    /\ held = <<reuse_output_buf.id>>

\* The same after advance(1).
C37_WitnessAdvance ==
    /\ last.op = "advance"
    /\ last.err = NoErr
    /\ last.num_frames = 1
    /\ reuse_output_buf # None
    /\ reuse_num_frames = 1
    /\ ~reuse_output_buf.zero
    /\ held = <<reuse_output_buf.id>>

\* Rendering with and without reuse and with and without a caller output
\* buffer, with re-initialisation under other channel counts.
PairRun ==
    \E n \in FrameVals :
        \/ \E reuse \in BOOLEAN : run(n, None, None, reuse)
        \/ \E output \in CallerBufs(n, output_channels, {TRUE}) :
              run(n, output, None, TRUE)

PairStage == \E v \in ChanVals : raw_set_param("OUTPUT_CHANNELS", v)

NextPair == PairRun \/ init \/ PairStage

SpecPair == InitBridge /\ [][NextPair]_vars

\* C38: the two buffers of the reuse pair are both absent or both present.
\* They are created only by run with reuse=True and no caller output buffer,
\* both in the same call, as new objects of num_frames * output_channels and
\* num_frames * input_channels elements (the channel counts that call read),
\* and the tag is set to num_frames in that call; until the next such call
\* the objects, their lengths and the tag stay.
C38_PairTogether ==
    [][/\ (reuse_output_buf' = None) <=> (reuse_input_buf' = None)
       /\ reuse_output_buf' = None => reuse_num_frames' = 0
       /\ (\/ Ident(reuse_output_buf') # Ident(reuse_output_buf)
           \/ Ident(reuse_input_buf') # Ident(reuse_input_buf)
           \/ reuse_num_frames' # reuse_num_frames)
          => /\ ReuseRun(last')
             /\ ReuseStale(last'.num_frames)
             /\ Ident(reuse_output_buf') # Ident(reuse_output_buf)
             /\ Ident(reuse_input_buf') # Ident(reuse_input_buf)
             /\ Ident(reuse_output_buf') # Ident(reuse_input_buf')
             /\ {reuse_output_buf'.id, reuse_input_buf'.id} \cap LiveIds = {}
             /\ reuse_output_buf'.own = "np" /\ reuse_input_buf'.own = "np"
             /\ reuse_num_frames' = last'.num_frames
             /\ reuse_output_buf'.len = last'.num_frames * output_channels
             /\ reuse_input_buf'.len = last'.num_frames * input_channels
       /\ (/\ Ident(reuse_output_buf') = Ident(reuse_output_buf)
           /\ Ident(reuse_input_buf') = Ident(reuse_input_buf))
          => /\ reuse_output_buf'.len = reuse_output_buf.len
             /\ reuse_input_buf'.len = reuse_input_buf.len
       /\ ReuseRun(last') => reuse_num_frames' = last'.num_frames]_vars

\* The pair was replaced by a reuse-mode run after a re-initialisation with
\* other channel counts: it is sized for the channel counts that run read.
C38_Witness ==
    /\ ReuseRun(last)
    /\ last.err = NoErr
    /\ last.num_frames = 2
    /\ reuse_num_frames = 2
    /\ output_channels # input_channels
    /\ output_channels # DefaultConfig.output_channels
    /\ reuse_output_buf.len = 2 * output_channels
    /\ reuse_input_buf.len = 2 * input_channels
    /\ reuse_output_buf.id # reuse_input_buf.id

\* ------------------------------------------------------- the TUI's log sink
\* `if len(self.log_messages) > 1000` and `[-500:]`.
MaxLogMessages == 1000

KeepLogMessages == 500

\* How many messages ChucK writes in the model.
MaxLines == 1600

\* The n-th message ChucK writes, as a string (a sequence of characters): the
\* line number, and for every second message a line end (character 0).
Line(n) == IF n % 2 = 0 THEN <<n, 0>> ELSE <<n>>

\* s[-n:] of Python.
LastN(s, n) == IF Len(s) <= n THEN s ELSE SubSeq(s, Len(s) - n + 1, Len(s))

\* "".join(s[lo..hi]).
RECURSIVE join_range(_, _, _)
join_range(s, lo, hi) ==
    IF lo > hi THEN << >>
    ELSE IF lo = hi THEN s[lo]
    ELSE LET mid == (lo + hi) \div 2
         IN join_range(s, lo, mid) \o join_range(s, mid + 1, hi)

join(s) == join_range(s, 1, Len(s))

\* Faulty variant: the list is trimmed but the text is left as it is.
log_callback_text_kept(msg) ==
    LET appended == Append(log_messages, msg)
        text == log_area_text \o msg
    IN /\ log_messages' = IF Len(appended) > MaxLogMessages
                          THEN LastN(appended, KeepLogMessages)
                          ELSE appended
       /\ log_area_text' = text
       /\ arrived' = arrived + 1

\* log_callback(msg) of create_log_window.
log_callback(msg) ==
    LET appended == Append(log_messages, msg)
        text == log_area_text \o msg
    IN /\ IF Len(appended) > MaxLogMessages
          THEN LET trimmed == LastN(appended, KeepLogMessages)
               IN /\ log_messages' = trimmed
                  /\ log_area_text' = join(LastN(trimmed, KeepLogMessages))
          ELSE /\ log_messages' = appended
               /\ log_area_text' = text
       /\ arrived' = arrived + 1

\* set_chout_callback(log_callback), set_cherr_callback(log_callback): ChucK
\* writes its next message to chout or to cherr.
Chout ==
    /\ arrived < MaxLines
    /\ log_callback(Line(arrived + 1))
    /\ last' = Call("chout")
    /\ UNCHANGED <<pkg, chuck, reuse_input_buf, reuse_output_buf,
                   reuse_num_frames, held, fired>>

Cherr ==
    /\ arrived < MaxLines
    /\ log_callback(Line(arrived + 1))
    /\ last' = Call("cherr")
    /\ UNCHANGED <<pkg, chuck, reuse_input_buf, reuse_output_buf,
                   reuse_num_frames, held, fired>>

NextLog == Chout \/ Cherr

SpecLog == InitSettled /\ [][NextLog]_vars

\* C39: the list of retained log messages never holds more than 1000
\* entries: a message that would make it 1001 leaves the most recent 500, any
\* other message is appended.  The retained messages are always the most
\* recent ones, in the order they arrived, and right after a trim the text of
\* the log window is the concatenation of the retained messages.
C39_LogBounded ==
    [][/\ Len(log_messages') <= MaxLogMessages
       /\ arrived' = arrived + 1
       /\ IF Len(log_messages) = MaxLogMessages
          THEN /\ Len(log_messages') = KeepLogMessages
               /\ log_area_text' = join(log_messages')
          ELSE /\ Len(log_messages') = Len(log_messages) + 1
               /\ log_area_text' = log_area_text \o Line(arrived')
       /\ \A i \in 1..Len(log_messages') :
             log_messages'[i] = Line(arrived' - Len(log_messages') + i)]_vars

\* The 1001st message has just arrived: messages 502 to 1001 are retained and
\* shown.
C39_Witness ==
    /\ arrived = MaxLogMessages + 1
    /\ Len(log_messages) = KeepLogMessages
    /\ log_messages[1] = Line(MaxLogMessages + 2 - KeepLogMessages)
    /\ log_messages[KeepLogMessages] = Line(MaxLogMessages + 1)
    /\ log_area_text = join(log_messages)
    /\ Len(log_area_text) = KeepLogMessages + KeepLogMessages \div 2

\* The list is full: 1000 messages are retained.
C39_WitnessFull ==
    /\ Len(log_messages) = MaxLogMessages
    /\ arrived > MaxLogMessages
====
